---- MODULE Spec2Model ----
(***************************************************************************)
(* The XP / level ledger of the leveling bot: LevelingManager (level       *)
(* curve, getUserLevelData, addXP, removeXP, resetUserLevel,               *)
(* resetGuildLevels), XPManager (handleMessageXP, handleVoiceXP), the      *)
(* node-cache wrapper and the UserLevel collection.                        *)
(*                                                                         *)
(* Every async method is a process: one action per stretch of code that    *)
(* runs without suspending.  A database request is two actions: the        *)
(* operation the store executes atomically (..Db / ..Write) and the        *)
(* continuation that runs when the awaited promise resolves (..Resp).      *)
(* Code that runs synchronously before the first await belongs to the      *)
(* action of the call.                                                     *)
(*                                                                         *)
(* Multipliers are counted in halves (2 = 1.0), which JavaScript's doubles *)
(* represent exactly, so floor(base * multiplier) is integer arithmetic.   *)
(***************************************************************************)
EXTENDS Integers, Sequences, FiniteSets, TLC

\* ------------------------------------------------------------------ bounds
MaxOps == 2
MaxTicks == 1
MaxLevel == 60
StartTime == 1000000
MaxVoiceOps == 3
MaxBoardOps == 2

\* -------------------------------------------------------- program constants
UnitMultiplier == 2
DefaultXpPerMessage == 15
DefaultXpPerMinuteVoice == 5
DefaultCooldownSeconds == 60
MillisPerSecond == 1000
MillisPerMinute == 60000
ExitMinimumMillis == 10000
ShutdownMinimumMillis == 1000
VoiceIntervalMillis == 300000
SweepThresholdPercent == 95
LeaderboardMaximum == 50

\* ------------------------------------------------------------------ inputs
Procs == {1, 2}
Guilds == {"g1", "g2"}
Users == {"u1", "u2", "u3"}
Keys == Guilds \X Users
Roles == {"r1", "r2"}
RewardRoles == {"A", "B", "C"}
NoRole == "-"
Channels == {"c1", "c2"}
NoUser == "-"
NoKey == <<"-", NoUser>>
Null == [null |-> TRUE]

Max(a, b) == IF a >= b THEN a ELSE b
Min(a, b) == IF a <= b THEN a ELSE b
SetMax(S) == CHOOSE x \in S : \A y \in S : y <= x

\* The elements of a set, one after another.
RECURSIVE SeqOf(_)
SeqOf(S) ==
  IF S = {} THEN << >>
  ELSE LET x == CHOOSE y \in S : TRUE IN <<x>> \o SeqOf(S \ {x})

\* db:     the UserLevel collection, one document (or Null) per member
\* cache:  the node-cache entries `level-<guildId>-<userId>`
\* procs:  the handlers in flight: position, locals, emitted events, result
\* now:    Date.now()
\* config: the effective configuration of each server
\* opsStarted, ticks: how many handlers were invoked, how often time advanced
\* ghost:  per member, the number and sum of the grants applied since the
\*         record was fresh, and whether only grants touched it
\* fn:     argument and results of the level functions
VARIABLES db, cache, procs, now, config, opsStarted, ticks, ghost, fn

\* members:        the guild members as the client caches them: bot flag,
\*                 roles, and the voice state (channel, deaf, suppress)
\* heldRoles:      the roles each member holds on Discord
\* voiceJoinTimes: VoiceManager's table, 0 for a member it does not track
\* xpInterval:     whether VoiceManager's interval timer is set
\* shutdowns:      how often shutdown() was called
VARIABLES members, heldRoles, voiceJoinTimes, xpInterval, shutdowns

\* stamps:       per member, the _id and the updatedAt of the UserLevel
\*               document (schema option timestamps), NoStamp without one
\* inserted:     how many UserLevel documents were ever inserted
\* guildConfigs: the GuildConfig collection, the stored settings of a server
\*               or Null
\* configCache:  the node-cache entries `config-<guildId>`
VARIABLES stamps, inserted, guildConfigs, configCache

discord == <<members, heldRoles>>
voiceVars == <<voiceJoinTimes, xpInterval, shutdowns>>
mongo == <<stamps, inserted>>
configVars == <<guildConfigs, configCache>>

vars == <<db, cache, procs, now, config, opsStarted, ticks, ghost, fn,
          members, heldRoles, voiceJoinTimes, xpInterval, shutdowns,
          stamps, inserted, guildConfigs, configCache>>

\* ------------------------------------------------------- the level curve
xpForLevel(level) ==
  IF level <= 0 THEN 0 ELSE 5 * level * level + 50 * level + 100

RECURSIVE LevelLoop(_, _)
LevelLoop(xp, level) ==
  IF xp >= xpForLevel(level + 1) THEN LevelLoop(xp, level + 1) ELSE level

\* A faulty variant: the threshold itself does not reach the next level.
RECURSIVE LevelLoopStrict(_, _)
LevelLoopStrict(xp, level) ==
  IF xp > xpForLevel(level + 1) THEN LevelLoopStrict(xp, level + 1) ELSE level

getLevelFromXPStrict(xp) == IF xp <= 0 THEN 0 ELSE LevelLoopStrict(xp, 0)

\* if (xp <= 0) return 0; then the loop from level 0.
getLevelFromXP(xp) == IF xp <= 0 THEN 0 ELSE LevelLoop(xp, 0)

\* ------------------------------------------------------------ documents
\* A UserLevel document as `$setOnInsert` creates it.
FreshDoc ==
  [xp |-> 0, level |-> 0, last |-> 0, msgs |-> 0, voice |-> 0]

\* { ...a, ...b } : the fields of b override those of a.
Merge(a, b) ==
  [f \in (DOMAIN a) \cup (DOMAIN b) |-> IF f \in DOMAIN b THEN b[f] ELSE a[f]]

\* Mongoose stamps every update of a document that matched with
\* updatedAt = now; an insert gives the document a new _id.
NoStamp == [id |-> 0, updatedAt |-> 0]
Touch(k) ==
  IF db[k] = Null THEN stamps ELSE [stamps EXCEPT ![k].updatedAt = now]

\* The effective configuration of a server that stored nothing.
DefaultConfig ==
  [xpPerMessage |-> DefaultXpPerMessage,
   xpPerMinuteVoice |-> DefaultXpPerMinuteVoice,
   messageCooldownSeconds |-> DefaultCooldownSeconds,
   roleMultipliers |-> << >>,
   channelMultipliers |-> << >>,
   ignoredRoles |-> {},
   ignoredChannels |-> {},
   levelRoles |-> << >>,
   roleRemovalStrategy |-> "keep_all",
   enablePenaltySystem |-> FALSE,
   leaderboardStyle |-> "card"]

\* getConfig: the normalized effective configuration of the server.
getConfig(g) == config[g]

\* ------------------------------------------------------------ processes
NoRet == [kind |-> "none"]
RetNull == [kind |-> "null"]
RetVoid == [kind |-> "void"]
RetUser(u) == [kind |-> "user", user |-> u]
RetBool(b) == [kind |-> "bool", b |-> b]
RetCount(n) == [kind |-> "count", n |-> n]
RetConfig(c) == [kind |-> "config", config |-> c]
RetThrown == [kind |-> "throw"]
RetGrant(oldLevel, newLevel, gained, u) ==
  [kind |-> "grant", oldLevel |-> oldLevel, newLevel |-> newLevel,
   gainedXp |-> gained, user |-> u]

IdleProc ==
  [op |-> "none", pc |-> "idle", k |-> NoKey, amt |-> 0, src |-> "",
   cont |-> "", ud |-> Null, res |-> Null, events |-> << >>, ret |-> NoRet,
   outcome |-> "", ch |-> "", roles |-> {}, t |-> 0, mul |-> 0,
   cfg |-> Null, dur |-> 0, pre |-> Null, msg |-> Null,
   toAdd |-> {}, toRemove |-> {}, had |-> {}, did |-> {}, faults |-> {},
   data |-> Null, caller |-> "", pending |-> FALSE,
   limit |-> 0, board |-> << >>,
   i |-> 0, sweepNow |-> 0, joinTime |-> 0, input |-> Null]

\* A handler that returned leaves its record behind until the slot is reused,
\* unless its caller still has code to run after it (pending); a new handler
\* takes the lowest free slot.
Idle(p) == procs[p].pc \in {"idle", "done"} /\ ~procs[p].pending
AllIdle == \A p \in Procs : Idle(p)
CanStart(p) == Idle(p) /\ \A q \in Procs : q < p => ~Idle(q)

\* A call record as the handler holds it right after being invoked; `pre`
\* remembers the persisted document at the moment of the call.
NewCall(op, k, amt, src) ==
  [IdleProc EXCEPT !.op = op, !.k = k, !.amt = amt, !.src = src,
                   !.pre = IF k \in Keys THEN db[k] ELSE Null]

\* The handler pr starts in slot p; what earlier handlers returned is dropped.
Launch(p, pr) ==
  [q \in Procs |->
     IF q = p THEN pr
     ELSE IF Idle(q) THEN IdleProc ELSE procs[q]]

Finish(pr, ret, outcome) ==
  [pr EXCEPT !.pc = "done", !.ret = ret, !.outcome = outcome]

\* ---------------------------------------------------- getUserLevelData
\* The synchronous head of getUserLevelData: a cache hit returns a copy of
\* the cached document, a miss issues the upsert.
CallGetUserLevelData(pr, cont) ==
  IF cache[pr.k] # Null
  THEN [pr EXCEPT !.ud = cache[pr.k], !.pc = cont]
  ELSE [pr EXCEPT !.pc = "gud_db", !.cont = cont]

\* findOneAndUpdate({guildId,userId}, {$setOnInsert}, {upsert, new}).
GudDb(p) ==
  /\ procs[p].pc = "gud_db"
  /\ LET k == procs[p].k
         doc == IF db[k] = Null THEN FreshDoc ELSE db[k]
     IN /\ db' = [db EXCEPT ![k] = doc]
        /\ procs' = [procs EXCEPT ![p].ud = doc, ![p].pc = "gud_resp"]
  /\ LET k == procs[p].k
     IN IF db[k] = Null
        THEN /\ stamps' = [stamps EXCEPT ![k] =
                  [id |-> inserted + 1, updatedAt |-> now]]
             /\ inserted' = inserted + 1
        ELSE /\ stamps' = Touch(k)
             /\ UNCHANGED inserted
  /\ UNCHANGED <<cache, now, config, opsStarted, ticks, ghost, fn, discord, voiceVars, configVars>>

\* The continuation of the upsert: cache the document, return a copy.
GudResp(p) ==
  /\ procs[p].pc = "gud_resp"
  /\ cache' = [cache EXCEPT ![procs[p].k] = procs[p].ud]
  /\ procs' = [procs EXCEPT ![p] =
       IF procs[p].cont = "done"
       THEN Finish(procs[p], RetUser(procs[p].ud), "read")
       ELSE [procs[p] EXCEPT !.pc = procs[p].cont]]
  /\ UNCHANGED <<db, now, config, opsStarted, ticks, ghost, fn, discord, voiceVars, mongo, configVars>>

StartGetUserLevelData(p, k) ==
  /\ CanStart(p)
  /\ LET pr == CallGetUserLevelData(NewCall("getUserLevelData", k, 0, ""), "done")
     IN procs' = Launch(p,
          IF pr.pc = "done" THEN Finish(pr, RetUser(pr.ud), "read") ELSE pr)
  /\ opsStarted' = opsStarted + 1
  /\ UNCHANGED <<db, cache, now, config, ticks, ghost, fn, discord, voiceVars, mongo, configVars>>

\* ------------------------------------------------------------------ addXP
\* A faulty variant: amount 0 is let through.
AmountRejectedLoose(amount) == amount < 0

\* `if (amount <= 0) return null`, shared by addXP and removeXP.
AmountRejected(amount) == amount <= 0

\* A faulty variant: the amount replaces the xp read.
AddXPNewXPOverwrite(ud, amount) == amount

\* newXP = userData.xp + amount
AddXPNewXP(ud, amount) == ud.xp + amount

\* A faulty variant: xp is written without the level.
SetXpOnly(doc, newXP, newLevel) == [doc EXCEPT !.xp = newXP]

\* { $set: { xp: newXP, level: newLevel } } applied to the stored document.
SetXpLevel(doc, newXP, newLevel) ==
  [doc EXCEPT !.xp = newXP, !.level = newLevel]

\* The event payloads LevelingSystem emits.
EvXpGained(k, amount, source, data) ==
  [type |-> "xpGained", k |-> k, amount |-> amount, source |-> source,
   newData |-> data]
EvLevelUp(k, oldLevel, newLevel, data) ==
  [type |-> "levelUp", k |-> k, oldLevel |-> oldLevel, newLevel |-> newLevel,
   user |-> data]
EvXpLost(k, amount, data) ==
  [type |-> "xpLost", k |-> k, amount |-> amount, newData |-> data]
EvLevelDown(k, oldLevel, newLevel, data) ==
  [type |-> "levelDown", k |-> k, oldLevel |-> oldLevel,
   newLevel |-> newLevel, user |-> data]
EvError(k) == [type |-> "error", k |-> k]
EvUserLevelReset(k) == [type |-> "userLevelReset", k |-> k]
EvGuildLevelsReset(g, n) == [type |-> "guildLevelsReset", g |-> g, count |-> n]
EvRoleAwarded(k, level, roleId) ==
  [type |-> "roleAwarded", k |-> k, level |-> level, roleId |-> roleId]
EvRoleRemoved(k, level, roleId, reason) ==
  [type |-> "roleRemoved", k |-> k, level |-> level, roleId |-> roleId,
   reason |-> reason]

\* A faulty variant: levelUp is emitted whether or not the level rose.
AddXPEventsAlwaysLevelUp(k, amount, source, oldLevel, newLevel, data) ==
  <<EvXpGained(k, amount, source, data), EvLevelUp(k, oldLevel, newLevel, data)>>

\* The events a successful addXP emits, in order.
AddXPEvents(k, amount, source, oldLevel, newLevel, data) ==
  <<EvXpGained(k, amount, source, data)>> \o
  (IF newLevel > oldLevel
   THEN <<EvLevelUp(k, oldLevel, newLevel, data)>> ELSE << >>)

\* The call of addXP up to its first await.
CallAddXP(pr) ==
  IF AmountRejected(pr.amt)
  THEN Finish(pr, RetNull, "rejected")
  ELSE CallGetUserLevelData(pr, "add_write")

StartAddXP(p, k, amount) ==
  /\ CanStart(p)
  /\ procs' = Launch(p, CallAddXP(NewCall("addXP", k, amount, "unknown")))
  /\ opsStarted' = opsStarted + 1
  /\ UNCHANGED <<db, cache, now, config, ticks, ghost, fn, discord, voiceVars, mongo, configVars>>

\* findOneAndUpdate({guildId,userId}, {$set: {xp, level}}, {new: true}):
\* no upsert, so a document deleted in the meantime yields null.
AddWrite(p) ==
  /\ procs[p].pc = "add_write"
  /\ LET pr == procs[p]
         newXP == AddXPNewXP(pr.ud, pr.amt)
         newLevel == getLevelFromXP(newXP)
         doc == IF db[pr.k] = Null THEN Null
                ELSE SetXpLevel(db[pr.k], newXP, newLevel)
     IN /\ db' = [db EXCEPT ![pr.k] = doc]
        /\ procs' = [procs EXCEPT ![p].res = doc, ![p].pc = "add_resp"]
  /\ stamps' = Touch(procs[p].k)
  /\ UNCHANGED <<cache, now, config, opsStarted, ticks, ghost, fn, discord, voiceVars, inserted, configVars>>

\* A faulty variant: the failed update is reported as a grant of the amount.
AddXPFailedAsGranted(pr) ==
  Finish([pr EXCEPT !.events = pr.events \o
            <<EvXpGained(pr.k, pr.amt, pr.src, pr.ud)>>],
         RetGrant(pr.ud.level, pr.ud.level, pr.amt, pr.ud), "failed")

\* if (!updatedDataLean): emit "error" and return the degraded result
\* { oldLevel, newLevel: oldLevel, gainedXp: 0, user: userData }.
AddXPFailed(pr) ==
  Finish([pr EXCEPT !.events = pr.events \o <<EvError(pr.k)>>],
         RetGrant(pr.ud.level, pr.ud.level, 0, pr.ud), "failed")

\* The continuation of the update: the degraded result when the document is
\* gone, otherwise cache.set, xpGained and (on a level-up) levelUp.
AddResp(p) ==
  /\ procs[p].pc = "add_resp"
  /\ LET pr == procs[p]
         oldLevel == pr.ud.level
         newLevel == getLevelFromXP(AddXPNewXP(pr.ud, pr.amt))
         updatedData == Merge(pr.ud, pr.res)
     IN IF pr.res = Null
        THEN /\ procs' = [procs EXCEPT ![p] = AddXPFailed(pr)]
             /\ UNCHANGED <<cache, ghost>>
        ELSE /\ cache' = [cache EXCEPT ![pr.k] = updatedData]
             /\ LET ev == AddXPEvents(pr.k, pr.amt, pr.src, oldLevel, newLevel,
                                      updatedData)
                    pr2 == [pr EXCEPT !.events = pr.events \o ev,
                                      !.ret = RetGrant(oldLevel, newLevel, pr.amt,
                                                       updatedData)]
                IN procs' = [procs EXCEPT ![p] =
                     IF newLevel > oldLevel
                     THEN [pr2 EXCEPT !.pc = "add_roles"]
                     ELSE [pr2 EXCEPT !.pc = "done", !.outcome = "granted"]]
             /\ ghost' = [ghost EXCEPT ![pr.k] =
                  [@ EXCEPT !.n = @ + 1, !.sum = @ + pr.amt]]
  /\ UNCHANGED <<db, now, config, opsStarted, ticks, fn, discord, voiceVars, mongo, configVars>>

\* The role handling of a level-up: getConfig, and nothing more when the
\* server has no level rewards configured (levelRolesMap.size == 0).
AddRoles(p) ==
  /\ procs[p].pc = "add_roles"
  /\ DOMAIN getConfig(procs[p].k[1]).levelRoles = {}
  /\ procs' = [procs EXCEPT ![p].pc = "done", ![p].outcome = "granted"]
  /\ UNCHANGED <<db, cache, now, config, opsStarted, ticks, ghost, fn, discord, voiceVars, mongo, configVars>>

\* ------------------------------------------------ addXP: the level rewards
\* A faulty variant: only the reward of the very level reached is proposed.
RolesToAddReachedOnly(levelRoles, oldLevel, newLevel, roles) ==
  {levelRoles[l] : l \in {x \in DOMAIN levelRoles :
     x = newLevel /\ levelRoles[x] \notin roles}}

\* rolesToAdd: newLevel >= requiredLevel && oldLevel < requiredLevel &&
\* !member.roles.cache.has(roleId), over the entries of levelRoles.
RolesToAdd(levelRoles, oldLevel, newLevel, roles) ==
  {levelRoles[l] : l \in {x \in DOMAIN levelRoles :
     newLevel >= x /\ oldLevel < x /\ levelRoles[x] \notin roles}}

\* highestRoleId: the reward of the highest requiredLevel <= newLevel, null
\* when there is none.
HighestRoleId(levelRoles, newLevel) ==
  LET qualified == {x \in DOMAIN levelRoles : newLevel >= x}
  IN IF qualified = {} THEN NoRole ELSE levelRoles[SetMax(qualified)]

\* A faulty variant: remove_previous without the exemption of the reward of
\* the level just reached.
RolesToRemoveNoExemption(cfg, newLevel, roles) ==
  LET levelRoles == cfg.levelRoles
  IN IF cfg.roleRemovalStrategy = "highest_only"
     THEN {levelRoles[l] : l \in {x \in DOMAIN levelRoles :
             /\ levelRoles[x] # HighestRoleId(levelRoles, newLevel)
             /\ levelRoles[x] \in roles}}
     ELSE IF cfg.roleRemovalStrategy = "remove_previous"
     THEN {levelRoles[l] : l \in {x \in DOMAIN levelRoles :
             x < newLevel /\ levelRoles[x] \in roles}}
     ELSE {}

\* rolesToRemove under roleRemovalStrategy, from the roles the member object
\* shows.
RolesToRemove(cfg, newLevel, roles) ==
  LET levelRoles == cfg.levelRoles
  IN IF cfg.roleRemovalStrategy = "highest_only"
     THEN {levelRoles[l] : l \in {x \in DOMAIN levelRoles :
             /\ levelRoles[x] # HighestRoleId(levelRoles, newLevel)
             /\ levelRoles[x] \in roles}}
     ELSE IF cfg.roleRemovalStrategy = "remove_previous"
     THEN {levelRoles[l] : l \in {x \in DOMAIN levelRoles :
             /\ x < newLevel
             /\ levelRoles[x] \in roles
             /\ ~(newLevel \in DOMAIN levelRoles
                  /\ levelRoles[newLevel] = levelRoles[x])}}
     ELSE {}

\* A faulty variant: the failure reaches the caller of addXP.
RoleFailureThrown(pr, what) ==
  [pr EXCEPT !.faults = @ \cup {what}, !.ret = [kind |-> "throw"]]

\* A failed role operation is caught and logged; the handler goes on.
CaughtRoleFailure(pr, what) == [pr EXCEPT !.faults = @ \cup {what}]

\* return { oldLevel, newLevel, gainedXp: amount, user }
Granted(pr) == [pr EXCEPT !.pc = "done", !.outcome = "granted"]

\* After getConfig, with level rewards configured: the guild lookup, whose
\* failure throws into the outer catch (emit "error"); then members.fetch.
AddRolesGuild(p, guildCached) ==
  /\ procs[p].pc = "add_roles"
  /\ DOMAIN getConfig(procs[p].k[1]).levelRoles # {}
  /\ LET pr == [procs[p] EXCEPT !.cfg = getConfig(procs[p].k[1])]
     IN procs' = [procs EXCEPT ![p] =
          IF guildCached
          THEN [pr EXCEPT !.pc = "role_fetch"]
          ELSE Granted([CaughtRoleFailure(pr, "guild") EXCEPT
                          !.events = @ \o <<EvError(pr.k)>>])]
  /\ UNCHANGED <<db, cache, now, config, opsStarted, ticks, ghost, fn, discord,
                 voiceVars, mongo, configVars>>

\* The removal half, run on the roles the member object shows at that moment:
\* member.roles.remove is called when there is something to remove.
AfterAddition(pr, roles) ==
  LET rem == RolesToRemove(pr.cfg, pr.ret.newLevel, roles)
  IN IF rem # {}
     THEN [pr EXCEPT !.toRemove = rem, !.pc = "role_remove"]
     ELSE Granted(pr)

\* After members.fetch (null when it fails): rolesToAdd from the member's
\* cached roles; member.roles.add is called when there is something to add.
AddRolesFetch(p, found) ==
  /\ procs[p].pc = "role_fetch"
  /\ LET pr == procs[p]
         roles == members[pr.k].roles
         add == RolesToAdd(pr.cfg.levelRoles, pr.ret.oldLevel, pr.ret.newLevel,
                           roles)
         pr2 == [pr EXCEPT !.had = roles, !.did = {"fetched"}, !.toAdd = add]
     IN procs' = [procs EXCEPT ![p] =
          IF ~found THEN Granted(CaughtRoleFailure(pr, "fetch"))
          ELSE IF add # {} THEN [pr2 EXCEPT !.pc = "role_add"]
          ELSE AfterAddition(pr2, roles)]
  /\ UNCHANGED <<db, cache, now, config, opsStarted, ticks, ghost, fn, discord,
                 voiceVars, mongo, configVars>>

\* Discord executes member.roles.add(rolesToAdd), or refuses it (missing
\* permission, role hierarchy).  The cached member is not touched.
RoleAddApi(p, ok) ==
  /\ procs[p].pc = "role_add"
  /\ heldRoles' = [heldRoles EXCEPT ![procs[p].k] =
       IF ok THEN @ \cup procs[p].toAdd ELSE @]
  /\ procs' = [procs EXCEPT ![p].pc = "role_add_resp",
                            ![p].did = IF ok THEN @ \cup {"added"} ELSE @]
  /\ UNCHANGED <<db, cache, now, config, opsStarted, ticks, ghost, fn, members,
                 voiceVars, mongo, configVars>>

\* The continuation of member.roles.add: roleAwarded for every role added, or
\* the catch; then the removal half.
RoleAddResp(p) ==
  /\ procs[p].pc = "role_add_resp"
  /\ LET pr == procs[p]
         added == SeqOf(pr.toAdd)
         pr2 == IF "added" \in pr.did
                THEN [pr EXCEPT !.events = @ \o
                        [i \in 1..Len(added) |->
                           EvRoleAwarded(pr.k, pr.ret.newLevel, added[i])]]
                ELSE CaughtRoleFailure(pr, "add")
     IN procs' = [procs EXCEPT ![p] = AfterAddition(pr2, members[pr.k].roles)]
  /\ UNCHANGED <<db, cache, now, config, opsStarted, ticks, ghost, fn, discord,
                 voiceVars, mongo, configVars>>

\* Discord executes member.roles.remove(rolesToRemove), or refuses it.
RoleRemoveApi(p, ok) ==
  /\ procs[p].pc = "role_remove"
  /\ heldRoles' = [heldRoles EXCEPT ![procs[p].k] =
       IF ok THEN @ \ procs[p].toRemove ELSE @]
  /\ procs' = [procs EXCEPT ![p].pc = "role_remove_resp",
                            ![p].did = IF ok THEN @ \cup {"removed"} ELSE @]
  /\ UNCHANGED <<db, cache, now, config, opsStarted, ticks, ghost, fn, members,
                 voiceVars, mongo, configVars>>

\* The continuation of member.roles.remove: roleRemoved for every role
\* removed, or the catch; then the return.
RoleRemoveResp(p) ==
  /\ procs[p].pc = "role_remove_resp"
  /\ LET pr == procs[p]
         removed == SeqOf(pr.toRemove)
     IN procs' = [procs EXCEPT ![p] = Granted(
          IF "removed" \in pr.did
          THEN [pr EXCEPT !.events = @ \o
                  [i \in 1..Len(removed) |->
                     EvRoleRemoved(pr.k, pr.ret.newLevel, removed[i],
                                   pr.cfg.roleRemovalStrategy)]]
          ELSE CaughtRoleFailure(pr, "remove"))]
  /\ UNCHANGED <<db, cache, now, config, opsStarted, ticks, ghost, fn, discord,
                 voiceVars, mongo, configVars>>

\* The gateway's member update reaches the client: the cached member, the
\* object the handlers hold, shows the roles the member has on Discord.
GuildMemberUpdate(k) ==
  /\ members[k].roles # heldRoles[k]
  /\ members' = [members EXCEPT ![k].roles = heldRoles[k]]
  /\ UNCHANGED <<db, cache, procs, now, config, opsStarted, ticks, ghost, fn,
                 heldRoles, voiceVars, mongo, configVars>>

\* --------------------------------------------------------------- removeXP
\* A faulty variant: no floor at 0.
RemoveXPNewXPUnfloored(ud, amount) == ud.xp - amount

\* newXP = Math.max(0, userData.xp - amount)
RemoveXPNewXP(ud, amount) == Max(0, ud.xp - amount)

StartRemoveXP(p, k, amount) ==
  /\ CanStart(p)
  /\ LET pr == NewCall("removeXP", k, amount, "penalty")
     IN procs' = Launch(p,
          IF AmountRejected(amount)
          THEN Finish(pr, RetNull, "rejected")
          ELSE CallGetUserLevelData(pr, "rem_write"))
  /\ opsStarted' = opsStarted + 1
  /\ UNCHANGED <<db, cache, now, config, ticks, ghost, fn, discord, voiceVars, mongo, configVars>>

RemWrite(p) ==
  /\ procs[p].pc = "rem_write"
  /\ LET pr == procs[p]
         newXP == RemoveXPNewXP(pr.ud, pr.amt)
         newLevel == getLevelFromXP(newXP)
         doc == IF db[pr.k] = Null THEN Null
                ELSE SetXpLevel(db[pr.k], newXP, newLevel)
     IN /\ db' = [db EXCEPT ![pr.k] = doc]
        /\ procs' = [procs EXCEPT ![p].res = doc, ![p].pc = "rem_resp"]
        /\ ghost' = [ghost EXCEPT ![pr.k].clean = FALSE]
  /\ stamps' = Touch(procs[p].k)
  /\ UNCHANGED <<cache, now, config, opsStarted, ticks, fn, discord, voiceVars, inserted, configVars>>

RemResp(p) ==
  /\ procs[p].pc = "rem_resp"
  /\ LET pr == procs[p]
         oldLevel == pr.ud.level
         newLevel == getLevelFromXP(RemoveXPNewXP(pr.ud, pr.amt))
         updatedData == Merge(pr.ud, pr.res)
     IN IF pr.res = Null
        THEN /\ procs' = [procs EXCEPT ![p] =
                  Finish([pr EXCEPT !.events = pr.events \o <<EvError(pr.k)>>],
                         RetNull, "failed")]
             /\ UNCHANGED cache
        ELSE /\ cache' = [cache EXCEPT ![pr.k] = updatedData]
             /\ procs' = [procs EXCEPT ![p] =
                  Finish([pr EXCEPT !.events = pr.events \o
                            <<EvXpLost(pr.k, pr.amt, updatedData)>> \o
                            (IF newLevel < oldLevel
                             THEN <<EvLevelDown(pr.k, oldLevel, newLevel,
                                                updatedData)>>
                             ELSE << >>)],
                         RetUser(updatedData), "revoked")]
  /\ UNCHANGED <<db, now, config, opsStarted, ticks, ghost, fn, discord, voiceVars, mongo, configVars>>

\* --------------------------------------------------- the levelDown handler
\* rolesToRemove: requiredLevel > data.newLevel && currentMemberRoles.has.
LevelDownRemovals(levelRoles, newLevel, roles) ==
  {levelRoles[l] : l \in {x \in DOMAIN levelRoles :
     x > newLevel /\ levelRoles[x] \in roles}}

\* The listener of "levelDown" runs for the event a removeXP emitted, up to
\* its first await (getConfig).
LevelDownStart(p) ==
  /\ procs[p].pc = "done"
  /\ procs[p].op = "removeXP"
  /\ procs[p].outcome = "revoked"
  /\ Len(procs[p].events) = 2
  /\ procs' = [procs EXCEPT ![p] =
       [NewCall("levelDown", procs[p].k, 0, "") EXCEPT
          !.data = procs[p].events[2], !.pc = "ld_cfg"]]
  /\ UNCHANGED <<db, cache, now, config, opsStarted, ticks, ghost, fn, discord,
                 voiceVars, mongo, configVars>>

\* After getConfig: nothing to do without level rewards or without the guild;
\* otherwise members.fetch.
LdCfg(p, guildCached) ==
  /\ procs[p].pc = "ld_cfg"
  /\ LET pr == [procs[p] EXCEPT !.cfg = getConfig(procs[p].k[1])]
     IN procs' = [procs EXCEPT ![p] =
          IF DOMAIN pr.cfg.levelRoles = {} \/ ~guildCached
          THEN Finish(pr, RetVoid, "nothing")
          ELSE [pr EXCEPT !.pc = "ld_fetch"]]
  /\ UNCHANGED <<db, cache, now, config, opsStarted, ticks, ghost, fn, discord,
                 voiceVars, mongo, configVars>>

\* After members.fetch: rolesToRemove; member.roles.remove is called when
\* there is something to remove.
LdFetch(p, found) ==
  /\ procs[p].pc = "ld_fetch"
  /\ LET pr == procs[p]
         roles == members[pr.k].roles
         rem == LevelDownRemovals(pr.cfg.levelRoles, pr.data.newLevel, roles)
         pr2 == [pr EXCEPT !.had = roles, !.did = {"fetched"}, !.toRemove = rem]
     IN procs' = [procs EXCEPT ![p] =
          IF ~found THEN Finish(CaughtRoleFailure(pr, "fetch"), RetVoid, "nothing")
          ELSE IF rem = {} THEN Finish(pr2, RetVoid, "handled")
          ELSE [pr2 EXCEPT !.pc = "ld_remove"]]
  /\ UNCHANGED <<db, cache, now, config, opsStarted, ticks, ghost, fn, discord,
                 voiceVars, mongo, configVars>>

\* Discord executes member.roles.remove(rolesToRemove), or refuses it.
LdRemoveApi(p, ok) ==
  /\ procs[p].pc = "ld_remove"
  /\ heldRoles' = [heldRoles EXCEPT ![procs[p].k] =
       IF ok THEN @ \ procs[p].toRemove ELSE @]
  /\ procs' = [procs EXCEPT ![p].pc = "ld_remove_resp",
                            ![p].did = IF ok THEN @ \cup {"removed"} ELSE @]
  /\ UNCHANGED <<db, cache, now, config, opsStarted, ticks, ghost, fn, members,
                 voiceVars, mongo, configVars>>

\* The continuation: roleRemoved for every role removed, or the catch, which
\* emits "error".
LdRemoveResp(p) ==
  /\ procs[p].pc = "ld_remove_resp"
  /\ LET pr == procs[p]
         removed == SeqOf(pr.toRemove)
     IN procs' = [procs EXCEPT ![p] = Finish(
          IF "removed" \in pr.did
          THEN [pr EXCEPT !.events = @ \o
                  [i \in 1..Len(removed) |->
                     EvRoleRemoved(pr.k, pr.data.newLevel, removed[i],
                                   "level_down")]]
          ELSE [CaughtRoleFailure(pr, "remove") EXCEPT
                  !.events = @ \o <<EvError(pr.k)>>],
          RetVoid, "handled")]
  /\ UNCHANGED <<db, cache, now, config, opsStarted, ticks, ghost, fn, discord,
                 voiceVars, mongo, configVars>>

\* --------------------------------------------------------- resetUserLevel
StartResetUser(p, k) ==
  /\ CanStart(p)
  /\ procs' = Launch(p,
       [NewCall("resetUserLevel", k, 0, "") EXCEPT !.pc = "ru_db"])
  /\ opsStarted' = opsStarted + 1
  /\ UNCHANGED <<db, cache, now, config, ticks, ghost, fn, discord, voiceVars, mongo, configVars>>

\* A faulty variant: only xp and level are reset.
ResetUserSetXpOnly(doc) == [doc EXCEPT !.xp = 0, !.level = 0]

\* $set: {xp: 0, level: 0, lastMessageTimestamp: 0, totalMessages: 0,
\*        totalVoiceDurationMillis: 0}
ResetUserSet(doc) ==
  [doc EXCEPT !.xp = 0, !.level = 0, !.last = 0, !.msgs = 0, !.voice = 0]

\* updateOne({guildId,userId}, {$set: all counters 0}); res keeps the match.
RuDb(p) ==
  /\ procs[p].pc = "ru_db"
  /\ LET k == procs[p].k
     IN /\ db' = [db EXCEPT ![k] =
             IF db[k] = Null THEN Null ELSE ResetUserSet(db[k])]
        /\ procs' = [procs EXCEPT ![p].res = db[k], ![p].pc = "ru_resp"]
        /\ ghost' = [ghost EXCEPT ![k].clean = FALSE]
  /\ stamps' = Touch(procs[p].k)
  /\ UNCHANGED <<cache, now, config, opsStarted, ticks, fn, discord, voiceVars, inserted, configVars>>

RuResp(p) ==
  /\ procs[p].pc = "ru_resp"
  /\ LET pr == procs[p]
     IN /\ cache' = [cache EXCEPT ![pr.k] = Null]
        /\ procs' = [procs EXCEPT ![p] =
             Finish([pr EXCEPT !.events = <<EvUserLevelReset(pr.k)>>],
                    RetBool(pr.res # Null), "reset")]
  /\ UNCHANGED <<db, now, config, opsStarted, ticks, ghost, fn, discord, voiceVars, mongo, configVars>>

\* ------------------------------------------------------- resetGuildLevels
StartResetGuild(p, g) ==
  /\ CanStart(p)
  /\ procs' = Launch(p,
       [NewCall("resetGuildLevels", <<g, NoUser>>, 0, "") EXCEPT !.pc = "rg_db"])
  /\ opsStarted' = opsStarted + 1
  /\ UNCHANGED <<db, cache, now, config, ticks, ghost, fn, discord, voiceVars, mongo, configVars>>

\* deleteMany({guildId}); amt keeps deletedCount.
RgDb(p) ==
  /\ procs[p].pc = "rg_db"
  /\ LET g == procs[p].k[1]
         gone == {k \in Keys : k[1] = g /\ db[k] # Null}
     IN /\ db' = [k \in Keys |-> IF k[1] = g THEN Null ELSE db[k]]
        /\ procs' = [procs EXCEPT ![p].amt = Cardinality(gone),
                                  ![p].pc = "rg_resp"]
        /\ ghost' = [k \in Keys |->
             IF k[1] = g THEN [n |-> 0, sum |-> 0, clean |-> TRUE] ELSE ghost[k]]
  /\ stamps' = [k \in Keys |->
       IF k[1] = procs[p].k[1] THEN NoStamp ELSE stamps[k]]
  /\ UNCHANGED <<cache, now, config, opsStarted, ticks, fn, discord, voiceVars, inserted, configVars>>

\* A faulty variant: every level entry of the cache is taken.
GuildKeysAnyServer(g) == Keys

\* keys.filter((k) => k.startsWith(`level-${guildId}-`))
GuildKeys(g) == {k \in Keys : k[1] = g}

\* cache.del of every key that starts with `level-<guildId>-`.
RgResp(p) ==
  /\ procs[p].pc = "rg_resp"
  /\ LET pr == procs[p]
     IN /\ cache' = [k \in Keys |->
             IF k \in GuildKeys(pr.k[1]) THEN Null ELSE cache[k]]
        /\ procs' = [procs EXCEPT ![p] =
             Finish([pr EXCEPT !.events = <<EvGuildLevelsReset(pr.k[1], pr.amt)>>],
                    RetCount(pr.amt), "reset")]
  /\ UNCHANGED <<db, now, config, opsStarted, ticks, ghost, fn, discord, voiceVars, mongo, configVars>>

\* --------------------------------------------------------- getLeaderboard
\* A faulty variant: the limit is passed on as given.
SafeLimitUnclamped(limit) == limit

\* safeLimit = Math.max(1, Math.min(limit, 50))
SafeLimit(limit) == Max(1, Min(limit, LeaderboardMaximum))

\* find({guildId, xp: {$gt: 0}})
LeaderboardMatches(g) ==
  {k \in Keys : k[1] = g /\ db[k] # Null /\ db[k].xp > 0}

\* sort({xp: -1, updatedAt: -1}): j may come before k.
SortsBefore(j, k) ==
  \/ db[j].xp > db[k].xp
  \/ db[j].xp = db[k].xp /\ stamps[j].updatedAt >= stamps[k].updatedAt

\* Every order the sort can give the documents of S: documents equal in xp
\* and updatedAt come in any order.
SortedOrders(S) ==
  {order \in [1..Cardinality(S) -> S] :
     /\ \A i, j \in 1..Cardinality(S) : i # j => order[i] # order[j]
     /\ \A i, j \in 1..Cardinality(S) : i < j => SortsBefore(order[i], order[j])}

\* A document as .lean() returns it.
LeanDoc(k) ==
  [guildId |-> k[1], userId |-> k[2], id |-> stamps[k].id, xp |-> db[k].xp,
   level |-> db[k].level, updatedAt |-> stamps[k].updatedAt]

StartGetLeaderboard(p, g, limit) ==
  /\ CanStart(p)
  /\ procs' = Launch(p,
       [NewCall("getLeaderboard", <<g, NoUser>>, SafeLimit(limit), "") EXCEPT
          !.limit = limit, !.pc = "lb_db"])
  /\ opsStarted' = opsStarted + 1
  /\ UNCHANGED <<db, cache, now, config, ticks, ghost, fn, discord, voiceVars, mongo, configVars>>

\* find(...).sort(...).limit(safeLimit).lean(), and the result is returned.
LbDb(p) ==
  /\ procs[p].pc = "lb_db"
  /\ LET pr == procs[p]
         found == LeaderboardMatches(pr.k[1])
         n == Min(pr.amt, Cardinality(found))
     IN \E order \in SortedOrders(found) :
          procs' = [procs EXCEPT ![p] =
            Finish([pr EXCEPT !.board = [i \in 1..n |-> LeanDoc(order[i])]],
                   RetCount(n), "listed")]
  /\ UNCHANGED <<db, cache, now, config, opsStarted, ticks, ghost, fn, discord, voiceVars, mongo, configVars>>

\* ------------------------------------------------------------ getUserRank
StartGetUserRank(p, k) ==
  /\ CanStart(p)
  /\ procs' = Launch(p,
       CallGetUserLevelData(NewCall("getUserRank", k, 0, ""), "rank_gate"))
  /\ opsStarted' = opsStarted + 1
  /\ UNCHANGED <<db, cache, now, config, ticks, ghost, fn, discord, voiceVars, mongo, configVars>>

\* if (!userData || userData.xp <= 0) return 0; else countDocuments is issued.
RankGate(p) ==
  /\ procs[p].pc = "rank_gate"
  /\ procs' = [procs EXCEPT ![p] =
       IF procs[p].ud.xp <= 0
       THEN Finish(procs[p], RetCount(0), "unranked")
       ELSE [procs[p] EXCEPT !.pc = "rank_db"]]
  /\ UNCHANGED <<db, cache, now, config, opsStarted, ticks, ghost, fn, discord, voiceVars, mongo, configVars>>

\* A faulty variant: the documents of every server are counted.
RankCountAllServers(g, xp) ==
  Cardinality({k \in Keys : db[k] # Null /\ db[k].xp > xp})

\* countDocuments({guildId, xp: {$gt: userData.xp}})
RankCount(g, xp) ==
  Cardinality({k \in Keys : k[1] = g /\ db[k] # Null /\ db[k].xp > xp})

\* return rank + 1
RankDb(p) ==
  /\ procs[p].pc = "rank_db"
  /\ procs' = [procs EXCEPT ![p] =
       Finish(procs[p],
              RetCount(RankCount(procs[p].k[1], procs[p].ud.xp) + 1), "ranked")]
  /\ UNCHANGED <<db, cache, now, config, opsStarted, ticks, ghost, fn, discord, voiceVars, mongo, configVars>>

\* ------------------------------------------------------------ applyPenalty
\* applyPenalty up to its first await: a non-positive amount returns null,
\* otherwise the configuration of the server is requested.
StartApplyPenalty(p, k, amount) ==
  /\ CanStart(p)
  /\ LET pr == NewCall("applyPenalty", k, amount, "Pelanggaran aturan")
     IN procs' = Launch(p,
          IF amount <= 0
          THEN Finish(pr, RetNull, "rejected")
          ELSE [pr EXCEPT !.pc = "pen_cfg"])
  /\ opsStarted' = opsStarted + 1
  /\ UNCHANGED <<db, cache, now, config, ticks, ghost, fn, discord, voiceVars, mongo, configVars>>

\* With the configuration at hand: null when enablePenaltySystem is off,
\* otherwise the call of removeXP up to its first await.
PenaltyGate(p) ==
  /\ procs[p].pc = "pen_cfg"
  /\ LET pr == procs[p]
     IN procs' = [procs EXCEPT ![p] =
          IF ~config[pr.k[1]].enablePenaltySystem
          THEN Finish(pr, RetNull, "disabled")
          ELSE CallGetUserLevelData(pr, "rem_write")]
  /\ UNCHANGED <<db, cache, now, config, opsStarted, ticks, ghost, fn, discord, voiceVars, mongo, configVars>>

\* ------------------------------------------------------ GuildConfigManager
\* JavaScript's null as the value of a setting.
Nothing == "(null)"
Falsy(v) == v \in {"", Nothing}
ValidStrategies == {"keep_all", "highest_only", "remove_previous"}
ValidStyles == {"card", "text"}

EvConfigUpdated(g, c) == [type |-> "configUpdated", g |-> g, newConfig |-> c]
EvConfigDeleted(g) == [type |-> "configDeleted", g |-> g]

\* A faulty variant: the stored values are passed on as they are.
NormalizeConfigAsStored(c) == c

\* _normalizeConfig: the two enumerated settings fall back to "card" and
\* "keep_all", enablePenaltySystem is true only for true.
_normalizeConfig(c) ==
  [c EXCEPT
     !.enablePenaltySystem = (@ = TRUE),
     !.leaderboardStyle = IF @ \in ValidStyles THEN @ ELSE "card",
     !.roleRemovalStrategy = IF @ \in ValidStrategies THEN @ ELSE "keep_all"]

\* this.defaultConfig, normalized by the constructor.
defaultConfig == _normalizeConfig(DefaultConfig)

\* updateData: newSettings without an invalid truthy roleRemovalStrategy or
\* leaderboardStyle.
UpdateData(newSettings) ==
  LET dropped ==
        {f \in DOMAIN newSettings :
           \/ /\ f = "roleRemovalStrategy"
              /\ ~Falsy(newSettings[f])
              /\ newSettings[f] \notin ValidStrategies
           \/ /\ f = "leaderboardStyle"
              /\ ~Falsy(newSettings[f])
              /\ newSettings[f] \notin ValidStyles}
  IN [f \in DOMAIN newSettings \ dropped |-> newSettings[f]]

\* runValidators on the $set: roleRemovalStrategy is required and
\* enumerated, leaderboardStyle is enumerated; whether the enum validator
\* lets null pass depends on the Mongoose release (nullPasses).
ValidationFails(updateData, nullPasses) ==
  \/ /\ "roleRemovalStrategy" \in DOMAIN updateData
     /\ updateData.roleRemovalStrategy \notin ValidStrategies
  \/ /\ "leaderboardStyle" \in DOMAIN updateData
     /\ updateData.leaderboardStyle \notin ValidStyles
     /\ ~(updateData.leaderboardStyle = Nothing /\ nullPasses)

StartGetConfig(p, g) ==
  /\ CanStart(p)
  /\ LET pr == NewCall("getConfig", <<g, NoUser>>, 0, "")
     IN procs' = Launch(p,
          IF configCache[g] # Null
          THEN Finish(pr, RetConfig(configCache[g]), "cached")
          ELSE [pr EXCEPT !.pc = "gc_db"])
  /\ opsStarted' = opsStarted + 1
  /\ UNCHANGED <<db, cache, now, config, ticks, ghost, fn, discord, voiceVars, mongo, configVars>>

\* GuildConfig.findOne({guildId}).lean()
GcDb(p) ==
  /\ procs[p].pc = "gc_db"
  /\ procs' = [procs EXCEPT ![p].res = guildConfigs[procs[p].k[1]],
                            ![p].pc = "gc_resp"]
  /\ UNCHANGED <<db, cache, now, config, opsStarted, ticks, ghost, fn, discord, voiceVars, mongo, configVars>>

\* finalConfig: the default, or the normalized merge of default and stored
\* settings; it is cached and a copy is returned.
GcResp(p) ==
  /\ procs[p].pc = "gc_resp"
  /\ LET pr == procs[p]
         g == pr.k[1]
         finalConfig == IF pr.res = Null THEN defaultConfig
                        ELSE _normalizeConfig(Merge(defaultConfig, pr.res))
     IN /\ configCache' = [configCache EXCEPT ![g] = finalConfig]
        /\ config' = [config EXCEPT ![g] = finalConfig]
        /\ procs' = [procs EXCEPT ![p] =
             Finish(pr, RetConfig(finalConfig), "loaded")]
  /\ UNCHANGED <<db, cache, now, opsStarted, ticks, ghost, fn, discord, voiceVars, mongo, guildConfigs>>

StartUpdateConfig(p, g, newSettings) ==
  /\ CanStart(p)
  /\ procs' = Launch(p,
       [NewCall("updateConfig", <<g, NoUser>>, 0, "") EXCEPT
          !.input = newSettings, !.data = UpdateData(newSettings),
          !.pc = "uc_db"])
  /\ opsStarted' = opsStarted + 1
  /\ UNCHANGED <<db, cache, now, config, ticks, ghost, fn, discord, voiceVars, mongo, configVars>>

\* findOneAndUpdate({guildId}, {$set: updateData}, {upsert, new,
\* setDefaultsOnInsert, runValidators}); a validation error is caught,
\* emitted as "error" and thrown again.
UcDb(p, nullPasses) ==
  /\ procs[p].pc = "uc_db"
  /\ LET pr == procs[p]
         g == pr.k[1]
         stored == IF guildConfigs[g] = Null THEN DefaultConfig
                   ELSE guildConfigs[g]
         doc == Merge(stored, pr.data)
     IN IF ValidationFails(pr.data, nullPasses)
        THEN /\ procs' = [procs EXCEPT ![p] =
                  Finish([pr EXCEPT !.events = <<EvError(pr.k)>>],
                         RetThrown, "threw")]
             /\ UNCHANGED guildConfigs
        ELSE /\ guildConfigs' = [guildConfigs EXCEPT ![g] = doc]
             /\ procs' = [procs EXCEPT ![p].res = doc, ![p].pc = "uc_resp"]
  /\ UNCHANGED <<db, cache, now, config, opsStarted, ticks, ghost, fn, discord, voiceVars, mongo, configCache>>

\* finalConfig is normalized, cached, emitted with configUpdated, returned.
UcResp(p) ==
  /\ procs[p].pc = "uc_resp"
  /\ LET pr == procs[p]
         g == pr.k[1]
         finalConfig == _normalizeConfig(Merge(defaultConfig, pr.res))
     IN /\ configCache' = [configCache EXCEPT ![g] = finalConfig]
        /\ config' = [config EXCEPT ![g] = finalConfig]
        /\ procs' = [procs EXCEPT ![p] =
             Finish([pr EXCEPT !.events = <<EvConfigUpdated(g, finalConfig)>>],
                    RetConfig(finalConfig), "updated")]
  /\ UNCHANGED <<db, cache, now, opsStarted, ticks, ghost, fn, discord, voiceVars, mongo, guildConfigs>>

StartDeleteConfig(p, g) ==
  /\ CanStart(p)
  /\ procs' = Launch(p,
       [NewCall("deleteConfig", <<g, NoUser>>, 0, "") EXCEPT !.pc = "dc_db"])
  /\ opsStarted' = opsStarted + 1
  /\ UNCHANGED <<db, cache, now, config, ticks, ghost, fn, discord, voiceVars, mongo, configVars>>

\* GuildConfig.deleteOne({guildId}); res keeps what was deleted.
DcDb(p) ==
  /\ procs[p].pc = "dc_db"
  /\ LET g == procs[p].k[1]
     IN /\ guildConfigs' = [guildConfigs EXCEPT ![g] = Null]
        /\ procs' = [procs EXCEPT ![p].res = guildConfigs[g],
                                  ![p].pc = "dc_resp"]
  /\ UNCHANGED <<db, cache, now, config, opsStarted, ticks, ghost, fn, discord, voiceVars, mongo, configCache>>

\* cache.del(cacheKey); configDeleted and true when a document was deleted.
DcResp(p) ==
  /\ procs[p].pc = "dc_resp"
  /\ LET pr == procs[p]
         g == pr.k[1]
     IN /\ configCache' = [configCache EXCEPT ![g] = Null]
        /\ config' = [config EXCEPT ![g] = defaultConfig]
        /\ procs' = [procs EXCEPT ![p] =
             IF pr.res # Null
             THEN Finish([pr EXCEPT !.events = <<EvConfigDeleted(g)>>],
                         RetBool(TRUE), "deleted")
             ELSE Finish(pr, RetBool(FALSE), "nothing")]
  /\ UNCHANGED <<db, cache, now, opsStarted, ticks, ghost, fn, discord, voiceVars, mongo, guildConfigs>>

\* ------------------------------------------------------------ environment
\* node-cache drops an entry whose TTL (stdTTL 300 s) has run out.
Expire(k) ==
  /\ cache[k] # Null
  /\ cache' = [cache EXCEPT ![k] = Null]
  /\ UNCHANGED <<db, procs, now, config, opsStarted, ticks, ghost, fn, discord, voiceVars, mongo, configVars>>

\* Date.now() advances.
Tick(d) ==
  /\ ticks < MaxTicks
  /\ now' = now + d
  /\ ticks' = ticks + 1
  /\ UNCHANGED <<db, cache, procs, config, opsStarted, ghost, fn, discord, voiceVars, mongo, configVars>>

\* ------------------------------------------------------- the gatekeeper
\* highestRoleMultiplier: starts at 1.0 and is raised by every role of the
\* member whose configured multiplier is truthy and greater; the whole block
\* is skipped (1.0) when the map is empty.
HighestRoleMultiplier(cfg, roles) ==
  IF DOMAIN cfg.roleMultipliers = {}
  THEN UnitMultiplier
  ELSE SetMax({UnitMultiplier} \cup
              {cfg.roleMultipliers[r] : r \in roles \cap DOMAIN cfg.roleMultipliers})

\* config.channelMultipliers.get(channelId) || 1.0, when the map has the key.
ChannelMultiplier(cfg, ch) ==
  IF ch \in DOMAIN cfg.channelMultipliers
  THEN (IF cfg.channelMultipliers[ch] = 0
        THEN UnitMultiplier ELSE cfg.channelMultipliers[ch])
  ELSE UnitMultiplier

\* Math.max(1, Math.floor(baseXpPerMessage * Math.max(0, finalMultiplier)))
MessageXP(cfg, ch, roles) ==
  Max(1, (cfg.xpPerMessage *
          Max(0, HighestRoleMultiplier(cfg, roles) * ChannelMultiplier(cfg, ch)))
         \div (UnitMultiplier * UnitMultiplier))

\* Math.max(1, Math.floor(durationMinutes * xpPerMinute * roleMultiplier))
VoiceXP(cfg, dur, roles) ==
  Max(1, (dur * cfg.xpPerMinuteVoice * Max(0, HighestRoleMultiplier(cfg, roles)))
         \div (MillisPerMinute * UnitMultiplier))

\* A faulty variant: the instant the cooldown ends is still rejected.
CooldownActiveInclusive(t, last, cfg) ==
  t <= last + cfg.messageCooldownSeconds * MillisPerSecond

\* if (now < lastTimestamp + cooldownMillis) return
CooldownActive(t, last, cfg) ==
  t < last + cfg.messageCooldownSeconds * MillisPerSecond

\* --------------------------------------------------------- handleMessageXP
NormalMessage ==
  [bot |-> FALSE, inGuild |-> TRUE, hasContent |-> TRUE, system |-> FALSE,
   hasMember |-> TRUE]

MessageKinds ==
  {NormalMessage,
   [NormalMessage EXCEPT !.bot = TRUE],
   [NormalMessage EXCEPT !.inGuild = FALSE, !.hasMember = FALSE],
   [NormalMessage EXCEPT !.hasContent = FALSE],
   [NormalMessage EXCEPT !.system = TRUE],
   [NormalMessage EXCEPT !.hasMember = FALSE]}

\* A faulty variant: a bot's message is let through.
MessageIgnoredExceptBots(m) ==
  ~m.inGuild \/ ~m.hasContent \/ m.system \/ ~m.hasMember

\* author.bot || !guild || !content || system || !member
MessageIgnored(m) ==
  m.bot \/ ~m.inGuild \/ ~m.hasContent \/ m.system \/ ~m.hasMember

StartMessage(p, k, ch, roles, m) ==
  /\ CanStart(p)
  /\ LET pr == [NewCall("message", k, 0, "message") EXCEPT
                 !.ch = ch, !.roles = roles, !.msg = m]
     IN procs' = Launch(p,
          IF MessageIgnored(m)
          THEN Finish(pr, RetVoid, "ignored")
          ELSE [pr EXCEPT !.pc = "msg_cfg"])
  /\ opsStarted' = opsStarted + 1
  /\ UNCHANGED <<db, cache, now, config, ticks, ghost, fn, discord, voiceVars, mongo, configVars>>

\* After getConfig: the rate and ignore-list checks, then getUserLevelData.
MsgCfg(p) ==
  /\ procs[p].pc = "msg_cfg"
  /\ LET cfg == getConfig(procs[p].k[1])
         pr == [procs[p] EXCEPT !.cfg = cfg]
     IN procs' = [procs EXCEPT ![p] =
          IF \/ cfg.xpPerMessage <= 0
             \/ pr.ch \in cfg.ignoredChannels
             \/ pr.roles \cap cfg.ignoredRoles # {}
          THEN Finish(pr, RetVoid, "ineligible")
          ELSE CallGetUserLevelData(pr, "msg_gate")]
  /\ UNCHANGED <<db, cache, now, config, opsStarted, ticks, ghost, fn, discord, voiceVars, mongo, configVars>>

\* Date.now(), the cooldown check, the multipliers and the amount; then the
\* metadata update is issued.
MsgGate(p) ==
  /\ procs[p].pc = "msg_gate"
  /\ LET pr == [procs[p] EXCEPT !.t = now]
     IN procs' = [procs EXCEPT ![p] =
          IF CooldownActive(now, pr.ud.last, pr.cfg)
          THEN Finish(pr, RetVoid, "cooldown")
          ELSE [pr EXCEPT !.mul = HighestRoleMultiplier(pr.cfg, pr.roles),
                          !.amt = MessageXP(pr.cfg, pr.ch, pr.roles),
                          !.pc = "msg_upd"]]
  /\ UNCHANGED <<db, cache, now, config, opsStarted, ticks, ghost, fn, discord, voiceVars, mongo, configVars>>

\* A faulty variant: the message is counted, its time is not stored.
MessageMetadataCountOnly(doc, t) == [doc EXCEPT !.msgs = @ + 1]

\* {$set: {lastMessageTimestamp: now}, $inc: {totalMessages: 1}}
MessageMetadata(doc, t) == [doc EXCEPT !.last = t, !.msgs = @ + 1]

\* updateOne({guildId,userId}, MessageMetadata): no document, no change.
MsgUpdDb(p) ==
  /\ procs[p].pc = "msg_upd"
  /\ LET pr == procs[p]
     IN db' = [db EXCEPT ![pr.k] =
          IF @ = Null THEN Null ELSE MessageMetadata(@, pr.t)]
  /\ procs' = [procs EXCEPT ![p].pc = "msg_upd_resp"]
  /\ stamps' = Touch(procs[p].k)
  /\ UNCHANGED <<cache, now, config, opsStarted, ticks, ghost, fn, discord, voiceVars, inserted, configVars>>

\* cache.del(cacheKey), then addXP(guildId, userId, gainedXP, source): its
\* getUserLevelData runs in the same turn and misses the cache.
AfterMetadataUpdate(p) ==
  /\ cache' = [cache EXCEPT ![procs[p].k] = Null]
  /\ procs' = [procs EXCEPT ![p] =
       IF AmountRejected(procs[p].amt)
       THEN Finish(procs[p], RetVoid, "rejected")
       ELSE [procs[p] EXCEPT !.pc = "gud_db", !.cont = "add_write"]]
  /\ UNCHANGED <<db, now, config, opsStarted, ticks, ghost, fn, discord, voiceVars, mongo, configVars>>

MsgUpdResp(p) ==
  /\ procs[p].pc = "msg_upd_resp"
  /\ AfterMetadataUpdate(p)

\* The update of addXP is rejected by the database: addXP throws, and the
\* catch of the message or voice handler emits "error".
GrantRejected(p) ==
  /\ procs[p].pc = "add_write"
  /\ procs[p].op \in {"message", "voice"}
  /\ procs' = [procs EXCEPT ![p] =
       Finish([procs[p] EXCEPT !.events = @ \o <<EvError(procs[p].k)>>],
              RetVoid, "threw")]
  /\ UNCHANGED <<db, cache, now, config, opsStarted, ticks, ghost, fn, discord, voiceVars, mongo, configVars>>

\* ----------------------------------------------------------- handleVoiceXP
NoChannel == "none"

\* What guild.members.fetch(userId) can resolve to (null when it fails).
NormalMember(roles, ch) ==
  [bot |-> FALSE, roles |-> roles, deaf |-> FALSE, suppress |-> FALSE,
   channel |-> ch]

MemberStates ==
  {Null} \cup
  {NormalMember(r, c) : r \in SUBSET Roles, c \in {NoChannel, "c2"}} \cup
  {[NormalMember({}, "c1") EXCEPT !.bot = TRUE],
   [NormalMember({}, "c1") EXCEPT !.deaf = TRUE],
   [NormalMember({}, "c1") EXCEPT !.suppress = TRUE]}

\* !member || bot || ignored role || deaf || suppress || ignored channel
VoiceIneligible(cfg, member) ==
  \/ member = Null
  \/ member.bot
  \/ member.roles \cap cfg.ignoredRoles # {}
  \/ member.deaf
  \/ member.suppress
  \/ (member.channel # NoChannel /\ member.channel \in cfg.ignoredChannels)

StartVoice(p, k, dur) ==
  /\ CanStart(p)
  /\ LET pr == [NewCall("voice", k, 0, "voice") EXCEPT !.dur = dur]
     IN procs' = Launch(p,
          IF dur <= 0
          THEN Finish(pr, RetVoid, "ignored")
          ELSE [pr EXCEPT !.pc = "v_cfg"])
  /\ opsStarted' = opsStarted + 1
  /\ UNCHANGED <<db, cache, now, config, ticks, ghost, fn, discord, voiceVars, mongo, configVars>>

\* After getConfig: the rate check and the guild lookup, then members.fetch.
VCfg(p, guildCached) ==
  /\ procs[p].pc = "v_cfg"
  /\ LET cfg == getConfig(procs[p].k[1])
         pr == [procs[p] EXCEPT !.cfg = cfg]
     IN procs' = [procs EXCEPT ![p] =
          IF cfg.xpPerMinuteVoice <= 0 \/ ~guildCached
          THEN Finish(pr, RetVoid, "ineligible")
          ELSE [pr EXCEPT !.pc = "v_fetch"]]
  /\ UNCHANGED <<db, cache, now, config, opsStarted, ticks, ghost, fn, discord, voiceVars, mongo, configVars>>

\* After members.fetch: the eligibility checks, the multiplier and the
\* amount; then the metadata update is issued.
VFetch(p, member) ==
  /\ procs[p].pc = "v_fetch"
  /\ LET pr == procs[p]
     IN procs' = [procs EXCEPT ![p] =
          IF VoiceIneligible(pr.cfg, member)
          THEN Finish(pr, RetVoid, "ineligible")
          ELSE [pr EXCEPT !.roles = member.roles,
                          !.mul = HighestRoleMultiplier(pr.cfg, member.roles),
                          !.amt = VoiceXP(pr.cfg, pr.dur, member.roles),
                          !.pc = "v_upd"]]
  /\ UNCHANGED <<db, cache, now, config, opsStarted, ticks, ghost, fn, discord, voiceVars, mongo, configVars>>

\* updateOne({guildId,userId}, {$inc: {totalVoiceDurationMillis: duration}})
VUpdDb(p) ==
  /\ procs[p].pc = "v_upd"
  /\ LET pr == procs[p]
     IN db' = [db EXCEPT ![pr.k] =
          IF @ = Null THEN Null ELSE [@ EXCEPT !.voice = @ + pr.dur]]
  /\ procs' = [procs EXCEPT ![p].pc = "v_upd_resp"]
  /\ stamps' = Touch(procs[p].k)
  /\ UNCHANGED <<cache, now, config, opsStarted, ticks, ghost, fn, discord, voiceVars, inserted, configVars>>

VUpdResp(p) ==
  /\ procs[p].pc = "v_upd_resp"
  /\ AfterMetadataUpdate(p)

\* ------------------------------------------------------------ VoiceManager
\* channelId && !deaf && !suppress
ValidForXp(st) == st.channel # NoChannel /\ ~st.deaf /\ ~st.suppress

\* _processXpGainOnExit: if (durationMillis > 10000)
ExitFlushes(durationMillis) == durationMillis > ExitMinimumMillis

\* A faulty variant: an entry of exactly 1 s is flushed.
ShutdownFlushesInclusive(durationMillis) ==
  durationMillis >= ShutdownMinimumMillis

\* shutdown: if (durationMillis > 1000)
ShutdownFlushes(durationMillis) == durationMillis > ShutdownMinimumMillis

\* handleVoiceXP(guildId, userId, durationMillis) up to its first await.
CallHandleVoiceXP(k, dur, caller) ==
  LET pr == [NewCall("voice", k, 0, "voice") EXCEPT !.dur = dur,
                                                    !.caller = caller]
  IN IF dur <= 0 THEN Finish(pr, RetVoid, "ignored")
     ELSE [pr EXCEPT !.pc = "v_cfg"]

\* The voice states a voiceStateUpdate can report for a member: the channel,
\* deaf or suppress differ from the state before (the event file drops an
\* event that changes none of them).
VoiceChanges(m) ==
  {[m EXCEPT !.channel = c, !.deaf = d, !.suppress = sp] :
     c \in {NoChannel, "c1", "c2"}, d \in BOOLEAN, sp \in BOOLEAN} \ {m}

\* A faulty variant: a member who becomes valid is tracked from now, whatever
\* the table held.
TrackedStartOverwritten(joinTime, t) == t

\* if (!joinTime) this.voiceJoinTimes.set(key, Date.now())
TrackedStart(joinTime, t) == IF joinTime = 0 THEN t ELSE joinTime

\* The gateway reports the new voice state of member k; the client caches it
\* and handleVoiceStateUpdate(oldState, newState) runs: a member who becomes
\* valid is tracked from now on, one who stops being valid is flushed by
\* _processXpGainOnExit and untracked.  A stay of at most 10 s is untracked in
\* the same turn; a longer one calls handleVoiceXP and is untracked once that
\* has returned.
VoiceStateUpdate(p, k, new) ==
  /\ CanStart(p)
  /\ shutdowns = 0
  /\ new \in VoiceChanges(members[k])
  /\ members' = [members EXCEPT ![k] = new]
  /\ LET old == members[k]
         joinTime == voiceJoinTimes[k]
         durationMillis == now - joinTime
         pr == [NewCall("voiceState", k, 0, "voice") EXCEPT !.t = now]
     IN IF new.bot
        THEN /\ procs' = Launch(p, Finish(pr, RetVoid, "ignored"))
             /\ UNCHANGED voiceJoinTimes
        ELSE IF ~ValidForXp(old) /\ ValidForXp(new)
        THEN /\ voiceJoinTimes' =
                  [voiceJoinTimes EXCEPT ![k] = TrackedStart(joinTime, now)]
             /\ procs' = Launch(p, Finish(pr, RetVoid, "valid"))
        ELSE IF ValidForXp(old) /\ ~ValidForXp(new) /\ joinTime # 0
        THEN IF ExitFlushes(durationMillis)
             THEN /\ procs' = Launch(p,
                       [CallHandleVoiceXP(k, durationMillis, "exit")
                          EXCEPT !.pending = TRUE])
                  /\ UNCHANGED voiceJoinTimes
             ELSE /\ voiceJoinTimes' = [voiceJoinTimes EXCEPT ![k] = 0]
                  /\ procs' = Launch(p,
                       Finish([pr EXCEPT !.dur = durationMillis,
                                         !.caller = "exit"],
                              RetVoid, "short"))
        ELSE /\ procs' = Launch(p, Finish(pr, RetVoid, "unchanged"))
             /\ UNCHANGED voiceJoinTimes
  /\ opsStarted' = opsStarted + 1
  /\ UNCHANGED <<db, cache, now, config, ticks, ghost, fn, heldRoles,
                 xpInterval, shutdowns, mongo, configVars>>

\* handleVoiceStateUpdate resumes after `await _processXpGainOnExit(..)`:
\* voiceJoinTimes.delete(key).
ExitReturned(p) ==
  /\ procs[p].pc = "done"
  /\ procs[p].pending
  /\ procs[p].caller = "exit"
  /\ voiceJoinTimes' = [voiceJoinTimes EXCEPT ![procs[p].k] = 0]
  /\ procs' = [procs EXCEPT ![p].pending = FALSE]
  /\ UNCHANGED <<db, cache, now, config, opsStarted, ticks, ghost, fn, discord,
                 xpInterval, shutdowns, mongo, configVars>>

\* The order in which shutdown visits the entries of the table.
VoiceKeySeq == << <<"g1", "u1">>, <<"g1", "u2">> >>

\* shutdown(): with the interval set, clear it, call handleVoiceXP for every
\* entry older than 1 s (each call runs to its first await) and clear the
\* table; without it, nothing.  index.js destroys the client right after, so
\* no voice event follows.  The calls take the handler slots, which are free.
Shutdown ==
  /\ shutdowns' = shutdowns + 1
  /\ opsStarted' = opsStarted + 1
  /\ IF xpInterval
     THEN /\ AllIdle
          /\ xpInterval' = FALSE
          /\ LET entries == SelectSeq(VoiceKeySeq, LAMBDA k :
                   /\ voiceJoinTimes[k] # 0
                   /\ ShutdownFlushes(now - voiceJoinTimes[k]))
             IN procs' = [q \in Procs |->
                  IF q <= Len(entries)
                  THEN CallHandleVoiceXP(entries[q],
                                         now - voiceJoinTimes[entries[q]],
                                         "shutdown")
                  ELSE IdleProc]
          /\ voiceJoinTimes' = [k \in Keys |-> 0]
     ELSE UNCHANGED <<xpInterval, procs, voiceJoinTimes>>
  /\ UNCHANGED <<db, cache, now, config, ticks, ghost, fn, discord, mongo, configVars>>

\* ------------------------------------------------------ checkVoiceActivity
\* durationSinceLastCheckOrJoin >= this.intervalMillis * 0.95
SweepDue(duration) ==
  duration * 100 >= VoiceIntervalMillis * SweepThresholdPercent

\* The loop of checkVoiceActivity moves on from position i of the table: the
\* next entry is read (key and joinTime) and its member is fetched, or the
\* sweep ends.  The guild of an entry is in the client's cache.
SweepVisit(sweepNow, i, table) ==
  LET pr == [IdleProc EXCEPT !.op = "sweep", !.sweepNow = sweepNow]
      rest == {j \in (i + 1)..Len(VoiceKeySeq) : table[VoiceKeySeq[j]] # 0}
  IN IF rest = {} THEN Finish(pr, RetVoid, "swept")
     ELSE LET j == CHOOSE x \in rest : \A y \in rest : x <= y
          IN [pr EXCEPT !.pc = "sw_fetch", !.i = j, !.k = VoiceKeySeq[j],
                        !.joinTime = table[VoiceKeySeq[j]]]

\* The interval timer fires: checkVoiceActivity takes `now` and starts on
\* the first entry.
CheckVoiceActivity(p) ==
  /\ CanStart(p)
  /\ xpInterval
  /\ procs' = Launch(p, SweepVisit(now, 0, voiceJoinTimes))
  /\ opsStarted' = opsStarted + 1
  /\ UNCHANGED <<db, cache, now, config, ticks, ghost, fn, discord, voiceVars, mongo, configVars>>

\* members.fetch resolved (null when it failed).  An invalid member goes
\* through _processXpGainOnExit and is untracked; a valid one whose time
\* since joinTime, taken at the sweep's `now`, is due gets
\* handleVoiceXP(guildId, userId, this.intervalMillis); one not yet due is
\* passed over.
SweepFetch(p, member) ==
  /\ procs[p].pc = "sw_fetch"
  /\ LET pr == procs[p]
         isValid == member # Null /\ ~member.bot /\ ValidForXp(member)
         durationMillis == now - pr.joinTime
         durationSinceLastCheckOrJoin == pr.sweepNow - pr.joinTime
         call(dur, caller) ==
           [CallHandleVoiceXP(pr.k, dur, caller) EXCEPT
              !.pending = TRUE, !.i = pr.i, !.sweepNow = pr.sweepNow,
              !.joinTime = pr.joinTime]
     IN IF ~isValid
        THEN IF ExitFlushes(durationMillis)
             THEN /\ procs' = [procs EXCEPT ![p] =
                       call(durationMillis, "sweep_exit")]
                  /\ UNCHANGED voiceJoinTimes
             ELSE /\ voiceJoinTimes' = [voiceJoinTimes EXCEPT ![pr.k] = 0]
                  /\ procs' = [procs EXCEPT ![p] =
                       SweepVisit(pr.sweepNow, pr.i, voiceJoinTimes')]
        ELSE IF SweepDue(durationSinceLastCheckOrJoin)
        THEN /\ procs' = [procs EXCEPT ![p] =
                  call(VoiceIntervalMillis, "sweep")]
             /\ UNCHANGED voiceJoinTimes
        ELSE /\ procs' = [procs EXCEPT ![p] =
                  SweepVisit(pr.sweepNow, pr.i, voiceJoinTimes)]
             /\ UNCHANGED voiceJoinTimes
  /\ UNCHANGED <<db, cache, now, config, opsStarted, ticks, ghost, fn, discord,
                 xpInterval, shutdowns, mongo, configVars>>

\* checkVoiceActivity resumes after its await: voiceJoinTimes.set(key, now)
\* after handleVoiceXP, voiceJoinTimes.delete(key) after
\* _processXpGainOnExit; then the next entry.
SweepReturned(p) ==
  /\ procs[p].pc = "done"
  /\ procs[p].pending
  /\ procs[p].caller \in {"sweep", "sweep_exit"}
  /\ voiceJoinTimes' = [voiceJoinTimes EXCEPT ![procs[p].k] =
       IF procs[p].caller = "sweep" THEN procs[p].sweepNow ELSE 0]
  /\ procs' = [procs EXCEPT ![p] =
       SweepVisit(procs[p].sweepNow, procs[p].i, voiceJoinTimes')]
  /\ UNCHANGED <<db, cache, now, config, opsStarted, ticks, ghost, fn, discord,
                 xpInterval, shutdowns, mongo, configVars>>

\* ------------------------------------------------------ the level functions
\* getLevelFromXP applied to xpForLevel(L) and to xpForLevel(L) - 1.
FnOff == [pc |-> "off", L |-> 0, at |-> 0, below |-> 0]

ApplyLevel ==
  /\ fn.pc = "in"
  /\ fn' = [fn EXCEPT !.pc = "out",
                      !.at = getLevelFromXP(xpForLevel(fn.L)),
                      !.below = getLevelFromXP(xpForLevel(fn.L) - 1)]
  /\ UNCHANGED <<db, cache, procs, now, config, opsStarted, ticks, ghost,
               discord, voiceVars, mongo, configVars>>

\* ---------------------------------------------------------- specifications
InitLedger ==
  /\ procs = [p \in Procs |-> IdleProc]
  /\ now = StartTime
  /\ opsStarted = 0
  /\ ticks = 0
  /\ voiceJoinTimes = [k \in Keys |-> 0]
  /\ xpInterval = TRUE
  /\ shutdowns = 0

\* Every member is a person who holds no role and is in no voice channel.
InitNobodyInVoice ==
  /\ members = [k \in Keys |-> NormalMember({}, NoChannel)]
  /\ heldRoles = [k \in Keys |-> {}]

\* The documents of the collection were inserted one after another and last
\* written at the start time.
RECURSIVE StampsOf(_, _)
StampsOf(present, n) ==
  IF present = {} THEN [k \in Keys |-> NoStamp]
  ELSE LET k == CHOOSE x \in present : TRUE
       IN [StampsOf(present \ {k}, n - 1) EXCEPT ![k] =
             [id |-> n, updatedAt |-> StartTime]]

InitStamps ==
  LET present == {k \in Keys : db[k] # Null}
  IN /\ stamps = StampsOf(present, Cardinality(present))
     /\ inserted = Cardinality(present)

\* No server has stored settings.
InitNoSettings ==
  /\ guildConfigs = [g \in Guilds |-> Null]
  /\ configCache = [g \in Guilds |-> Null]

InitEmpty ==
  /\ db = [k \in Keys |-> Null]
  /\ cache = [k \in Keys |-> Null]
  /\ ghost = [k \in Keys |-> [n |-> 0, sum |-> 0, clean |-> TRUE]]

\* Two handlers at a time on one server with the default configuration.  The
\* collection starts empty or holds the member's document as earlier grants
\* left it, cached or not.
Grants == {60, 160}
Revokes == {100}
RaceKeys == {<<"g1", "u1">>}
EarlierDocs ==
  {[FreshDoc EXCEPT !.xp = 160, !.level = getLevelFromXP(160),
                    !.last = StartTime, !.msgs = 1]}

InitStored ==
  \E k \in RaceKeys, d \in EarlierDocs : \E c \in {Null, d} :
    /\ db = [j \in Keys |-> IF j = k THEN d ELSE Null]
    /\ cache = [j \in Keys |-> IF j = k THEN c ELSE Null]
    /\ ghost = [j \in Keys |-> [n |-> 0, sum |-> 0, clean |-> j # k]]

Init ==
  /\ InitLedger
  /\ InitNobodyInVoice
  /\ InitEmpty \/ InitStored
  /\ config = [g \in Guilds |-> DefaultConfig]
  /\ fn = FnOff
  /\ InitStamps
  /\ InitNoSettings

Steps(p) ==
  \/ GudDb(p) \/ GudResp(p)
  \/ AddWrite(p) \/ AddResp(p) \/ AddRoles(p)
  \/ RemWrite(p) \/ RemResp(p)
  \/ RuDb(p) \/ RuResp(p)
  \/ RgDb(p) \/ RgResp(p)
  \/ MsgCfg(p) \/ MsgGate(p) \/ MsgUpdDb(p) \/ MsgUpdResp(p)
  \/ VCfg(p, TRUE)
  \/ VFetch(p, NormalMember({}, "c1"))
  \/ VUpdDb(p) \/ VUpdResp(p)

Next ==
  \/ /\ opsStarted < MaxOps
     /\ \E p \in Procs, k \in RaceKeys :
          \/ StartGetUserLevelData(p, k)
          \/ \E a \in Grants : StartAddXP(p, k, a)
          \/ \E a \in Revokes : StartRemoveXP(p, k, a)
          \/ StartResetUser(p, k)
          \/ StartResetGuild(p, k[1])
          \/ StartMessage(p, k, "c1", {}, NormalMessage)
          \/ StartVoice(p, k, MillisPerMinute)
  \/ \E p \in Procs : Steps(p)
  \/ \E k \in RaceKeys : Expire(k)

Spec == Init /\ [][Next]_vars

\* One handler at a time: the ledger's operations called back to back.
SeqAmounts == {-5, 0, 60, 100, 160}
SeqKeys == {<<"g1", "u1">>, <<"g1", "u2">>, <<"g2", "u1">>}

LedgerSteps(p) ==
  \/ GudDb(p) \/ GudResp(p)
  \/ AddWrite(p) \/ AddResp(p) \/ AddRoles(p)
  \/ RemWrite(p) \/ RemResp(p)
  \/ RuDb(p) \/ RuResp(p)
  \/ RgDb(p) \/ RgResp(p)

NextSeq ==
  \/ /\ opsStarted < MaxOps
     /\ \E k \in SeqKeys :
          \/ StartGetUserLevelData(1, k)
          \/ \E a \in SeqAmounts : StartAddXP(1, k, a) \/ StartRemoveXP(1, k, a)
          \/ StartResetUser(1, k)
          \/ StartResetGuild(1, k[1])
  \/ LedgerSteps(1)
  \/ \E k \in SeqKeys : Expire(k)

InitSeq ==
  /\ InitLedger
  /\ InitNobodyInVoice
  /\ InitEmpty
  /\ config = [g \in Guilds |-> DefaultConfig]
  /\ fn = FnOff
  /\ InitStamps
  /\ InitNoSettings

SpecSeq == InitSeq /\ [][NextSeq]_vars

\* One handler at a time: messages and voice sessions of one member on a
\* server whose stored configuration is one of GateConfigs.
GateConfigs ==
  {DefaultConfig,
   [DefaultConfig EXCEPT !.messageCooldownSeconds = 1,
                         !.roleMultipliers = ("r1" :> 1)],
   [DefaultConfig EXCEPT !.xpPerMessage = 80,
                         !.roleMultipliers = ("r1" :> 3) @@ ("r2" :> 4),
                         !.channelMultipliers = ("c1" :> 3)],
   [DefaultConfig EXCEPT !.roleMultipliers = ("r1" :> 1) @@ ("r2" :> 0),
                         !.channelMultipliers = ("c1" :> 1)],
   [DefaultConfig EXCEPT !.channelMultipliers = ("c1" :> 0) @@ ("c2" :> 4)],
   [DefaultConfig EXCEPT !.xpPerMessage = 1, !.xpPerMinuteVoice = 1,
                         !.channelMultipliers = ("c1" :> 1)],
   [DefaultConfig EXCEPT !.xpPerMessage = 0, !.xpPerMinuteVoice = 0],
   [DefaultConfig EXCEPT !.ignoredRoles = {"r2"}, !.ignoredChannels = {"c2"}]}

GateKeys == {<<"g1", "u1">>}
TickSteps == {1, 1000, 60000, 61000}
Durations == {0, 15000, 60000}

InitGate ==
  /\ InitLedger
  /\ InitNobodyInVoice
  /\ InitEmpty
  /\ \E c \in GateConfigs : config = [g \in Guilds |-> c]
  /\ fn = FnOff
  /\ InitStamps
  /\ InitNoSettings

NextGate ==
  \/ /\ opsStarted < MaxOps
     /\ \E k \in GateKeys :
          \/ \E ch \in Channels, rs \in SUBSET Roles, m \in MessageKinds :
               StartMessage(1, k, ch, rs, m)
          \/ \E d \in Durations : StartVoice(1, k, d)
  \/ GudDb(1) \/ GudResp(1)
  \/ AddWrite(1) \/ AddResp(1) \/ AddRoles(1)
  \/ MsgCfg(1) \/ MsgGate(1) \/ MsgUpdDb(1) \/ MsgUpdResp(1)
  \/ \E gc \in BOOLEAN : VCfg(1, gc)
  \/ \E m \in MemberStates : VFetch(1, m)
  \/ VUpdDb(1) \/ VUpdResp(1)
  \/ GrantRejected(1)
  \/ \E k \in GateKeys : Expire(k)
  \/ \E d \in TickSteps : Tick(d)

SpecGate == InitGate /\ [][NextGate]_vars

\* Voice sessions of two members of one server.  The process has just started: the table is empty, and the
\* members are wherever they were when the bot came up.
VoiceKeys == {<<"g1", "u1">>, <<"g1", "u2">>}
StartPresence ==
  {NormalMember({}, NoChannel), NormalMember({}, "c1"),
   [NormalMember({}, "c1") EXCEPT !.bot = TRUE]}
VoiceTickSteps == {1000, 1001, 10000, 10001, 60000}
VoiceConfigs == {DefaultConfig, [DefaultConfig EXCEPT !.xpPerMinuteVoice = 160]}

InitVoice ==
  /\ InitLedger
  /\ InitEmpty
  /\ \E c \in VoiceConfigs : config = [g \in Guilds |-> c]
  /\ fn = FnOff
  /\ heldRoles = [k \in Keys |-> {}]
  /\ \E m1 \in StartPresence, m2 \in StartPresence :
       members = [k \in Keys |->
         IF k = <<"g1", "u1">> THEN m1
         ELSE IF k = <<"g1", "u2">> THEN m2
         ELSE NormalMember({}, NoChannel)]
  /\ InitStamps
  /\ InitNoSettings

VoiceSteps(p) ==
  \/ VCfg(p, TRUE)
  \/ VFetch(p, members[procs[p].k])
  \/ VUpdDb(p) \/ VUpdResp(p)
  \/ GudDb(p) \/ GudResp(p)
  \/ AddWrite(p) \/ AddResp(p) \/ AddRoles(p)
  \/ ExitReturned(p)

NextVoice ==
  \/ /\ opsStarted < MaxVoiceOps
     /\ \/ \E p \in Procs, k \in VoiceKeys :
             \E new \in VoiceChanges(members[k]) : VoiceStateUpdate(p, k, new)
        \/ Shutdown
  \/ \E p \in Procs : VoiceSteps(p)
  \/ \E d \in VoiceTickSteps : Tick(d)

SpecVoice == InitVoice /\ [][NextVoice]_vars

\* One handler at a time: grants and revokes of one member on a server with
\* level rewards.  The member's record stands at level 4 or 12; the member
\* holds any of the reward roles, and the client's cache shows them.
ClaimRewards == (5 :> "A") @@ (10 :> "B") @@ (15 :> "C")
ReusedRewards == (5 :> "A") @@ (10 :> "A")
RoleConfigs ==
  {DefaultConfig} \cup
  {[DefaultConfig EXCEPT !.levelRoles = lr, !.roleRemovalStrategy = st] :
     lr \in {ClaimRewards, ReusedRewards},
     st \in {"keep_all", "highest_only", "remove_previous"}}
RoleKeys == {<<"g1", "u1">>}
RoleDocs ==
  {[FreshDoc EXCEPT !.xp = 400, !.level = getLevelFromXP(400)],
   [FreshDoc EXCEPT !.xp = 1500, !.level = getLevelFromXP(1500)]}
RoleGrants == {20, 700, 1100}
RoleRevokes == {700}

InitRoles ==
  /\ InitLedger
  /\ fn = FnOff
  /\ \E c \in RoleConfigs : config = [g \in Guilds |-> c]
  /\ \E k \in RoleKeys, d \in RoleDocs, rs \in SUBSET RewardRoles :
       \E c \in {Null, d} :
         /\ db = [j \in Keys |-> IF j = k THEN d ELSE Null]
         /\ cache = [j \in Keys |-> IF j = k THEN c ELSE Null]
         /\ ghost = [j \in Keys |-> [n |-> 0, sum |-> 0, clean |-> j # k]]
         /\ heldRoles = [j \in Keys |-> IF j = k THEN rs ELSE {}]
         /\ members = [j \in Keys |->
              NormalMember(IF j = k THEN rs ELSE {}, NoChannel)]
  /\ InitStamps
  /\ InitNoSettings

NextRoles ==
  \/ /\ opsStarted < MaxOps
     /\ \E k \in RoleKeys :
          \/ \E a \in RoleGrants : StartAddXP(1, k, a)
          \/ \E a \in RoleRevokes : StartRemoveXP(1, k, a)
  \/ GudDb(1) \/ GudResp(1)
  \/ AddWrite(1) \/ AddResp(1) \/ AddRoles(1)
  \/ \E gc \in BOOLEAN : AddRolesGuild(1, gc)
  \/ \E found \in BOOLEAN : AddRolesFetch(1, found)
  \/ \E ok \in BOOLEAN : RoleAddApi(1, ok)
  \/ RoleAddResp(1)
  \/ \E ok \in BOOLEAN : RoleRemoveApi(1, ok)
  \/ RoleRemoveResp(1)
  \/ RemWrite(1) \/ RemResp(1)
  \/ LevelDownStart(1)
  \/ \E gc \in BOOLEAN : LdCfg(1, gc)
  \/ \E found \in BOOLEAN : LdFetch(1, found)
  \/ \E ok \in BOOLEAN : LdRemoveApi(1, ok)
  \/ LdRemoveResp(1)
  \/ \E k \in RoleKeys : GuildMemberUpdate(k)

SpecRoles == InitRoles /\ [][NextRoles]_vars

\* One call at a time on a collection that earlier activity left behind:
\* up to three members of g1 and one richer member of g2, the documents
\* last written at different times, all of them cached or none.
BoardKeys == {<<"g1", "u1">>, <<"g1", "u2">>, <<"g1", "u3">>, <<"g2", "u1">>}
BoardXp == {0, 60, 160}
BoardLimits == {0, 1, 2, 10, 51}
BoardDoc(xp) ==
  [FreshDoc EXCEPT !.xp = xp, !.level = getLevelFromXP(xp),
                   !.last = StartTime - MillisPerMinute, !.msgs = 3,
                   !.voice = MillisPerMinute]
BoardPosition(k) ==
  IF k = <<"g1", "u1">> THEN 1 ELSE IF k = <<"g1", "u2">> THEN 2
  ELSE IF k = <<"g1", "u3">> THEN 3 ELSE 4

InitBoard ==
  /\ InitLedger
  /\ InitNobodyInVoice
  /\ config = [g \in Guilds |-> DefaultConfig]
  /\ fn = FnOff
  /\ InitNoSettings
  /\ \E d1 \in {Null} \cup {BoardDoc(x) : x \in BoardXp},
        d2 \in {Null} \cup {BoardDoc(x) : x \in BoardXp},
        d3 \in {Null, BoardDoc(60)},
        oldestFirst \in BOOLEAN, cached \in BOOLEAN :
       /\ db = [k \in Keys |->
            IF k = <<"g1", "u1">> THEN d1
            ELSE IF k = <<"g1", "u2">> THEN d2
            ELSE IF k = <<"g1", "u3">> THEN d3
            ELSE IF k = <<"g2", "u1">> THEN BoardDoc(500) ELSE Null]
       /\ cache = IF cached THEN db ELSE [k \in Keys |-> Null]
       /\ stamps = [k \in Keys |->
            IF db[k] = Null THEN NoStamp
            ELSE [id |-> BoardPosition(k),
                  updatedAt |-> IF oldestFirst
                                THEN StartTime - 5 + BoardPosition(k)
                                ELSE StartTime - BoardPosition(k)]]
       /\ inserted = Cardinality(BoardKeys)
       /\ ghost = [k \in Keys |-> [n |-> 0, sum |-> 0, clean |-> db[k] = Null]]

NextBoard ==
  \/ /\ opsStarted < MaxBoardOps
     /\ \/ \E k \in BoardKeys :
             \/ StartGetUserLevelData(1, k)
             \/ StartGetUserRank(1, k)
             \/ StartResetUser(1, k)
        \/ \E g \in Guilds :
             \/ \E limit \in BoardLimits : StartGetLeaderboard(1, g, limit)
             \/ StartResetGuild(1, g)
  \/ GudDb(1) \/ GudResp(1)
  \/ RankGate(1) \/ RankDb(1)
  \/ LbDb(1)
  \/ RuDb(1) \/ RuResp(1)
  \/ RgDb(1) \/ RgResp(1)

SpecBoard == InitBoard /\ [][NextBoard]_vars

\* One call at a time to the configuration of one server, with valid and
\* invalid values of the two enumerated settings.
ConfigGuilds == {"g1"}
StrategyInputs == ValidStrategies \cup {"bogus", "", Nothing}
StyleInputs == ValidStyles \cup {"bogus", "", Nothing}
SettingsInputs ==
  {<< >>, [enablePenaltySystem |-> TRUE]} \cup
  {[roleRemovalStrategy |-> v] : v \in StrategyInputs} \cup
  {[leaderboardStyle |-> w] : w \in StyleInputs} \cup
  {[roleRemovalStrategy |-> v, leaderboardStyle |-> w] :
     v \in StrategyInputs, w \in StyleInputs}

\* Settings a previous run of the bot left in the database: none, or a
\* document whose leaderboardStyle is "text" or null.
StoredSettings ==
  {Null} \cup
  {[DefaultConfig EXCEPT !.roleRemovalStrategy = "highest_only",
                         !.leaderboardStyle = w] : w \in {"text", Nothing}}

InitConfig ==
  /\ InitLedger
  /\ InitNobodyInVoice
  /\ InitEmpty
  /\ config = [g \in Guilds |-> DefaultConfig]
  /\ fn = FnOff
  /\ InitStamps
  /\ \E stored \in StoredSettings :
       guildConfigs = [g \in Guilds |-> IF g \in ConfigGuilds THEN stored ELSE Null]
  /\ configCache = [g \in Guilds |-> Null]

NextConfig ==
  \/ /\ opsStarted < MaxOps
     /\ \E g \in ConfigGuilds :
          \/ StartGetConfig(1, g)
          \/ \E newSettings \in SettingsInputs :
               StartUpdateConfig(1, g, newSettings)
          \/ StartDeleteConfig(1, g)
  \/ GcDb(1) \/ GcResp(1)
  \/ \E nullPasses \in BOOLEAN : UcDb(1, nullPasses)
  \/ UcResp(1)
  \/ DcDb(1) \/ DcResp(1)

SpecConfig == InitConfig /\ [][NextConfig]_vars

\* Two overlapping calls to the configuration of one server.
NextConfigRace ==
  \/ /\ opsStarted < MaxOps
     /\ \E p \in Procs, g \in ConfigGuilds :
          \/ StartGetConfig(p, g)
          \/ \E newSettings \in SettingsInputs :
               StartUpdateConfig(p, g, newSettings)
          \/ StartDeleteConfig(p, g)
  \/ \E p \in Procs :
       \/ GcDb(p) \/ GcResp(p)
       \/ \E nullPasses \in BOOLEAN : UcDb(p, nullPasses)
       \/ UcResp(p)
       \/ DcDb(p) \/ DcResp(p)

SpecConfigRace == InitConfig /\ [][NextConfigRace]_vars

\* One call at a time of applyPenalty or removeXP for one member, whose
\* server has the penalty system switched on or off.
PenaltyKeys == {<<"g1", "u1">>}
PenaltyAmounts == {0, 100, 700}
PenaltyDocs ==
  {Null} \cup
  {[FreshDoc EXCEPT !.xp = x, !.level = getLevelFromXP(x),
                    !.last = StartTime, !.msgs = 1] : x \in {160, 1500}}

InitPenalty ==
  /\ InitLedger
  /\ InitNobodyInVoice
  /\ \E d \in PenaltyDocs, cached \in BOOLEAN :
       /\ db = [k \in Keys |-> IF k \in PenaltyKeys THEN d ELSE Null]
       /\ cache = [k \in Keys |->
                     IF k \in PenaltyKeys /\ cached THEN d ELSE Null]
  /\ ghost = [k \in Keys |-> [n |-> 0, sum |-> 0, clean |-> TRUE]]
  /\ \E enabled \in BOOLEAN :
       config = [g \in Guilds |->
                   [DefaultConfig EXCEPT !.enablePenaltySystem = enabled]]
  /\ fn = FnOff
  /\ InitStamps
  /\ InitNoSettings

NextPenalty ==
  \/ /\ opsStarted < MaxOps
     /\ \E k \in PenaltyKeys, a \in PenaltyAmounts :
          \/ StartApplyPenalty(1, k, a)
          \/ StartRemoveXP(1, k, a)
  \/ PenaltyGate(1)
  \/ GudDb(1) \/ GudResp(1)
  \/ RemWrite(1) \/ RemResp(1)

SpecPenalty == InitPenalty /\ [][NextPenalty]_vars

\* Sweeps over the table of two members of one server who were in a voice
\* channel, tracked, when the clock of the model starts; the second joined
\* SweepLead before the first.
SweepTickSteps == {284999, 290000, 300000}
SweepLead == 10000
SweepConfig == [DefaultConfig EXCEPT !.xpPerMinuteVoice = 160]

InitSweep ==
  /\ procs = [p \in Procs |-> IdleProc]
  /\ now = StartTime
  /\ opsStarted = 0
  /\ ticks = 0
  /\ xpInterval = TRUE
  /\ shutdowns = 0
  /\ InitEmpty
  /\ config = [g \in Guilds |-> SweepConfig]
  /\ fn = FnOff
  /\ heldRoles = [k \in Keys |-> {}]
  /\ members = [k \in Keys |->
       IF k \in VoiceKeys THEN NormalMember({}, "c1")
       ELSE NormalMember({}, NoChannel)]
  /\ voiceJoinTimes = [k \in Keys |->
       IF k = <<"g1", "u1">> THEN StartTime
       ELSE IF k = <<"g1", "u2">> THEN StartTime - SweepLead
       ELSE 0]
  /\ InitStamps
  /\ InitNoSettings

NextSweep ==
  \/ /\ opsStarted < MaxOps
     /\ \E p \in Procs :
          \/ CheckVoiceActivity(p)
          \/ \E k \in VoiceKeys :
               \E new \in VoiceChanges(members[k]) : VoiceStateUpdate(p, k, new)
  \/ \E p \in Procs :
       \/ \E found \in BOOLEAN :
            SweepFetch(p, IF found THEN members[procs[p].k] ELSE Null)
       \/ SweepReturned(p)
       \/ VoiceSteps(p)
  \/ \E d \in SweepTickSteps : Tick(d)

SpecSweep == InitSweep /\ [][NextSweep]_vars

\* The level functions on every level up to MaxLevel.
InitLevel ==
  /\ InitLedger
  /\ InitNobodyInVoice
  /\ InitEmpty
  /\ config = [g \in Guilds |-> DefaultConfig]
  /\ \E l \in 0..MaxLevel : fn = [pc |-> "in", L |-> l, at |-> 0, below |-> 0]
  /\ InitStamps
  /\ InitNoSettings

NextLevel == ApplyLevel

SpecLevel == InitLevel /\ [][NextLevel]_vars

\* ------------------------------------------------------------------ claims
\* The xp and the last-message time persisted when the handler was called.
PreXp(pr) == IF pr.pre = Null THEN 0 ELSE pr.pre.xp
PreLast(pr) == IF pr.pre = Null THEN 0 ELSE pr.pre.last

Returned(p) == procs[p].pc = "done"

\* C1: when two addXP calls for the same member overlap and both complete
\* successfully, the persisted xp is the initial xp plus both amounts.
\* (Two handlers occupy both slots only if the second started while the
\* first was still running.)
C1_OverlappingGrantsBothApplied ==
  ( /\ Returned(1) /\ Returned(2)
    /\ procs[1].op = "addXP" /\ procs[2].op = "addXP"
    /\ procs[1].k = procs[2].k
    /\ procs[1].outcome = "granted" /\ procs[2].outcome = "granted"
    /\ opsStarted = 2 )
  => /\ db[procs[1].k] # Null
     /\ db[procs[1].k].xp = PreXp(procs[1]) + procs[1].amt + procs[2].amt

\* C2: in every reachable state every persisted record has
\* level = getLevelFromXP(xp).
C2_LevelMatchesXp ==
  \A k \in Keys : db[k] # Null => db[k].level = getLevelFromXP(db[k].xp)

\* A grant returned and the record stands at level 2 or above.
C2_Witness ==
  \E p \in Procs :
    /\ Returned(p) /\ procs[p].outcome = "granted"
    /\ db[procs[p].k] # Null
    /\ db[procs[p].k].xp >= xpForLevel(2)
    /\ db[procs[p].k].level >= 2

\* C3 as stated: for every L >= 0, getLevelFromXP(xpForLevel(L)) = L and
\* getLevelFromXP(xpForLevel(L) - 1) = L - 1.
C3_BoundaryExactFromZero ==
  fn.pc = "out" => fn.at = fn.L /\ fn.below = fn.L - 1

\* C3 amended: for every L >= 0, getLevelFromXP(xpForLevel(L)) = L; for every
\* L >= 1, getLevelFromXP(xpForLevel(L) - 1) = L - 1; below level 0 there is
\* no level: getLevelFromXP(xpForLevel(0) - 1) = 0.
C3_BoundaryExact ==
  fn.pc = "out" =>
    /\ fn.at = fn.L
    /\ fn.L >= 1 => fn.below = fn.L - 1
    /\ fn.L = 0 => fn.below = 0

\* Level 1 starts at 155 xp: 155 gives level 1 and 154 gives level 0.
C3_Witness ==
  /\ fn.pc = "out" /\ fn.L = 1
  /\ xpForLevel(fn.L) = 155
  /\ fn.at = 1 /\ fn.below = 0

\* C4: grants made one after another to a fresh member leave the persisted
\* and the cached (xp, level) that one grant of their sum leaves:
\* (sum, getLevelFromXP(sum)).
C4_SequentialGrantsAdd ==
  \A k \in Keys :
    (ghost[k].clean /\ ghost[k].n >= 1 /\ AllIdle) =>
      /\ db[k] # Null
      /\ db[k].xp = ghost[k].sum
      /\ db[k].level = getLevelFromXP(ghost[k].sum)
      /\ cache[k] # Null =>
           /\ cache[k].xp = ghost[k].sum
           /\ cache[k].level = getLevelFromXP(ghost[k].sum)

\* Two grants, 60 then 100 or 100 then 60, stand where one grant of 160 does.
C4_Witness ==
  \E k \in Keys :
    /\ ghost[k].clean /\ ghost[k].n = 2 /\ ghost[k].sum = 160 /\ AllIdle
    /\ procs[1].op = "addXP" /\ procs[1].amt < 160
    /\ db[k] # Null /\ db[k].xp = 160 /\ db[k].level = 1
    /\ cache[k] # Null /\ cache[k].xp = 160

\* C5: a removeXP that finds the record leaves xp = max(0, xp - amount) of
\* the xp it read; every record has xp >= 0 and level >= 0; and
\* getLevelFromXP(0) = 0.
C5_RevokeFloorsAtZero ==
  /\ getLevelFromXP(0) = 0
  /\ \A k \in Keys : db[k] # Null => db[k].xp >= 0 /\ db[k].level >= 0
  /\ \A p \in Procs :
       (procs[p].op = "removeXP" /\ procs[p].pc = "rem_resp"
        /\ procs[p].res # Null) =>
         /\ procs[p].res.xp >= 0
         /\ procs[p].res.xp >= procs[p].ud.xp - procs[p].amt
         /\ procs[p].res.xp \in {0, procs[p].ud.xp - procs[p].amt}

\* A revoke larger than the member's xp returned with xp 0.
C5_Witness ==
  \E p \in Procs :
    /\ Returned(p) /\ procs[p].op = "removeXP" /\ procs[p].outcome = "revoked"
    /\ procs[p].ud.xp > 0 /\ procs[p].ud.xp < procs[p].amt
    /\ procs[p].ret.user.xp = 0
    /\ db[procs[p].k] # Null /\ db[procs[p].k].xp = 0

\* An addXP call with amount > 0 that has emitted its events: addXP itself,
\* or the one a message or voice handler makes.
GrantCalled(p) ==
  /\ procs[p].op \in {"addXP", "message", "voice"}
  /\ procs[p].pc \in {"add_roles", "done"}
  /\ procs[p].amt > 0

\* Exactly one xpGained; exactly one levelUp iff the level rose, after the
\* xpGained, carrying both levels and the updated record.
GrantEventsAsStated(pr) ==
  LET evs == pr.events
      gained == {i \in DOMAIN evs : evs[i].type = "xpGained"}
      ups == {i \in DOMAIN evs : evs[i].type = "levelUp"}
  IN /\ Cardinality(gained) = 1
     /\ Cardinality(ups) <= 1
     /\ Cardinality(ups) = 1 <=> pr.ret.newLevel > pr.ret.oldLevel
     /\ \A i \in ups :
          /\ \A j \in gained : j < i
          /\ evs[i].oldLevel = pr.ret.oldLevel
          /\ evs[i].newLevel = pr.ret.newLevel
          /\ evs[i].user = pr.ret.user

\* C6 as stated: every addXP call with amount > 0 emits exactly one xpGained
\* and exactly one levelUp iff newLevel > oldLevel, after the xpGained and
\* carrying oldLevel, newLevel and the updated record.
C6_EveryGrantEmits ==
  \A p \in Procs : GrantCalled(p) => GrantEventsAsStated(procs[p])

\* C6 amended: every addXP call with amount > 0 whose update finds the record
\* emits exactly one xpGained and exactly one levelUp iff newLevel > oldLevel,
\* after the xpGained and carrying oldLevel, newLevel and the updated record,
\* which has the xp and level the update persisted.
C6_AppliedGrantEmits ==
  \A p \in Procs :
    (GrantCalled(p) /\ procs[p].res # Null) =>
      /\ GrantEventsAsStated(procs[p])
      /\ procs[p].ret.user.xp = procs[p].res.xp
      /\ procs[p].ret.user.level = procs[p].res.level

\* A grant that raised the level emitted xpGained and then levelUp.
C6_Witness ==
  \E p \in Procs :
    /\ GrantCalled(p) /\ procs[p].res # Null
    /\ procs[p].ret.newLevel > procs[p].ret.oldLevel
    /\ Len(procs[p].events) = 2
    /\ procs[p].events[1].type = "xpGained"
    /\ procs[p].events[2].type = "levelUp"

\* C7: addXP and removeXP called with amount <= 0 return null at once, emit
\* nothing and leave the collection and the cache as they were.
C7_NonPositiveAmountIsNoOp ==
  [][\A p \in Procs :
       ( /\ CanStart(p)
         /\ opsStarted' = opsStarted + 1
         /\ procs'[p].op \in {"addXP", "removeXP"}
         /\ procs'[p].amt <= 0 )
       => /\ procs'[p].pc = "done"
          /\ procs'[p].ret = RetNull
          /\ procs'[p].events = << >>
          /\ db' = db
          /\ cache' = cache]_vars

\* A revoke of amount 0 from a member with xp returned null.
C7_Witness ==
  \E p \in Procs :
    /\ Returned(p) /\ procs[p].op = "removeXP" /\ procs[p].amt = 0
    /\ procs[p].ret = RetNull /\ procs[p].events = << >>
    /\ procs[p].pre # Null /\ procs[p].pre.xp > 0
    /\ db[procs[p].k] = procs[p].pre

\* C8: of the messages of one member handled one after another, an eligible
\* one read at time t is granted iff t >= lastMessageTimestamp +
\* messageCooldownSeconds * 1000, and a granted one leaves
\* lastMessageTimestamp = t.
C8_CooldownGate ==
  \A p \in Procs :
    ( /\ Returned(p) /\ procs[p].op = "message"
      /\ procs[p].outcome \in {"cooldown", "granted"} ) =>
      /\ procs[p].outcome = "granted" <=>
           procs[p].t >= PreLast(procs[p]) +
             config[procs[p].k[1]].messageCooldownSeconds * 1000
      /\ procs[p].outcome = "granted" =>
           /\ db[procs[p].k] # Null
           /\ db[procs[p].k].last = procs[p].t

\* A second message exactly one cooldown after the first was granted.
C8_Witness ==
  \E p \in Procs :
    /\ Returned(p) /\ procs[p].op = "message" /\ procs[p].outcome = "granted"
    /\ PreLast(procs[p]) > 0
    /\ procs[p].t = PreLast(procs[p]) +
         config[procs[p].k[1]].messageCooldownSeconds * 1000
    /\ db[procs[p].k].last = procs[p].t
    /\ db[procs[p].k].msgs = 2

\* The channel multiplier as stated: the configured value, 1.0 when the
\* channel has none.
StatedChannelMultiplier(cfg, ch) ==
  IF ch \in DOMAIN cfg.channelMultipliers
  THEN cfg.channelMultipliers[ch] ELSE UnitMultiplier

\* C9: the amount of every granted message is
\* max(1, floor(base * roleMultiplier * channelMultiplier)), the channel
\* multiplier being the value configured for the channel (1.0 only when it
\* has none) and the product clamped to >= 0.  The role multiplier is the one
\* the handler applied.
C9_ChannelMultiplierScalesGrant ==
  \A p \in Procs :
    (Returned(p) /\ procs[p].op = "message" /\ procs[p].outcome = "granted") =>
      /\ procs[p].amt >= 1
      /\ procs[p].ret.gainedXp = procs[p].amt
      /\ procs[p].amt =
           Max(1, (procs[p].cfg.xpPerMessage *
                   Max(0, procs[p].mul *
                          StatedChannelMultiplier(procs[p].cfg, procs[p].ch)))
                  \div (UnitMultiplier * UnitMultiplier))

\* The role multiplier as stated: the largest multiplier configured for a
\* role the member holds, 1.0 when none of them has one.
StatedRoleMultiplier(cfg, roles) ==
  LET held == roles \cap DOMAIN cfg.roleMultipliers
  IN IF held = {} THEN UnitMultiplier
     ELSE SetMax({cfg.roleMultipliers[r] : r \in held})

\* C10: the role multiplier applied to a message or voice grant is the largest
\* multiplier configured for a role the member holds, and 1.0 only when none
\* of the member's roles has one.
C10_HighestConfiguredRoleMultiplier ==
  \A p \in Procs :
    ( /\ Returned(p) /\ procs[p].op \in {"message", "voice"}
      /\ procs[p].outcome = "granted" ) =>
      procs[p].mul = StatedRoleMultiplier(procs[p].cfg, procs[p].roles)

\* A message the gatekeeper is to reject: from a bot, outside a guild, without
\* content, on a server whose xpPerMessage is 0, in an ignored channel, or
\* from a member who holds an ignored role.
MessageToReject(pr) ==
  /\ pr.op = "message"
  /\ \/ pr.msg.bot
     \/ ~pr.msg.inGuild
     \/ ~pr.msg.hasContent
     \/ config[pr.k[1]].xpPerMessage = 0
     \/ pr.ch \in config[pr.k[1]].ignoredChannels
     \/ pr.roles \cap config[pr.k[1]].ignoredRoles # {}

\* C11: a message from a bot, outside a guild, with empty content, on a server
\* whose xpPerMessage is 0, in an ignored channel or from a holder of an
\* ignored role is rejected with no ledger effect: the author's record (xp,
\* level, lastMessageTimestamp, totalMessages) stays as it was when the
\* message arrived, no xpGained or levelUp is emitted and no grant is made.
C11_RejectedMessageLeavesLedger ==
  \A p \in Procs :
    MessageToReject(procs[p]) =>
      /\ db[procs[p].k] = procs[p].pre
      /\ procs[p].events = << >>
      /\ procs[p].pc \in {"msg_cfg", "done"}
      /\ Returned(p) => procs[p].outcome \in {"ignored", "ineligible"}

\* After a granted message, a message of the same member in an ignored
\* channel returned and the member's record is as the grant left it.
C11_Witness ==
  \E p \in Procs :
    /\ Returned(p) /\ MessageToReject(procs[p])
    /\ procs[p].ch \in config[procs[p].k[1]].ignoredChannels
    /\ procs[p].outcome = "ineligible"
    /\ procs[p].pre # Null /\ procs[p].pre.xp > 0 /\ procs[p].pre.msgs = 1
    /\ db[procs[p].k] = procs[p].pre

\* A voice handler that handleVoiceStateUpdate called for a member who
\* stopped being valid, after the handler returned and the entry was deleted.
ExitHandled(p) ==
  /\ procs[p].caller = "exit"
  /\ Returned(p)
  /\ ~procs[p].pending

\* C12: when a tracked member stops being valid through a voice-state event
\* (left the channel, was deafened or was suppressed), the entry is untracked
\* and, if the time since the tracked start is > 10 s, exactly one voice grant
\* for that time is applied: the member's xp increases by the voice amount;
\* if it is <= 10 s, no grant is made.
C12_ExitFlushesOneGrant ==
  \A p \in Procs :
    ExitHandled(p) =>
      /\ voiceJoinTimes[procs[p].k] = 0
      /\ IF procs[p].dur > 10000
         THEN /\ procs[p].outcome = "granted"
              /\ Len(SelectSeq(procs[p].events,
                               LAMBDA e : e.type = "xpGained")) = 1
              /\ db[procs[p].k] # Null
              /\ db[procs[p].k].xp =
                   PreXp(procs[p]) +
                   VoiceXP(procs[p].cfg, procs[p].dur, procs[p].roles)
         ELSE /\ procs[p].outcome = "short"
              /\ procs[p].events = << >>
              /\ db[procs[p].k] = procs[p].pre

\* C13: once the process is ready, every member who is not a bot and is
\* valid for voice xp (in a voice channel, not deafened, not suppressed) has a
\* tracked start time, without a voice-state event.
C13_EligibleMembersTrackedAfterStart ==
  (shutdowns = 0 /\ AllIdle) =>
    \A k \in Keys :
      (~members[k].bot /\ ValidForXp(members[k])) => voiceJoinTimes[k] # 0

\* The handleVoiceXP calls that a shutdown() step has just made for member k.
ShutdownCallsFor(k) ==
  {p \in Procs : /\ procs'[p].op = "voice"
                 /\ procs'[p].caller = "shutdown"
                 /\ procs'[p].k = k
                 /\ procs'[p].pc = "v_cfg"
                 /\ procs'[p].dur = now - voiceJoinTimes[k]}

RewardsSettled(p, st) ==
  /\ Returned(p)
  /\ procs[p].op = "addXP"
  /\ "fetched" \in procs[p].did
  /\ procs[p].faults = {}
  /\ procs[p].cfg.roleRemovalStrategy = st

\* The level-up of the examples: rewards {5:A, 10:B, 15:C}, level 4 to 12.
JumpFourToTwelve(p) ==
  /\ procs[p].cfg.levelRoles = ClaimRewards
  /\ procs[p].ret.oldLevel = 4
  /\ procs[p].ret.newLevel = 12

\* C15: under remove_previous with rewards {5:A, 10:B, 15:C}, a level-up from
\* 4 to 12 of a member who holds none of them, all role operations
\* succeeding, adds A and B, marks A for removal and leaves the member
\* holding exactly B among the reward roles.
C15_RemovePreviousLeavesLatest ==
  \A p \in Procs :
    ( /\ RewardsSettled(p, "remove_previous")
      /\ JumpFourToTwelve(p)
      /\ procs[p].had \cap RewardRoles = {} ) =>
      /\ procs[p].toAdd = {"A", "B"}
      /\ "A" \in procs[p].toRemove
      /\ heldRoles[procs[p].k] \cap RewardRoles = {"B"}

\* The roles the reward map gives for levels up to newLevel at its highest
\* such level (none when no level qualifies).
StatedTier(levelRoles, newLevel) ==
  {levelRoles[l] : l \in {x \in DOMAIN levelRoles :
     /\ x <= newLevel
     /\ \A y \in DOMAIN levelRoles : y <= newLevel => y <= x}}

\* C16: under highest_only, after a level-up in which all role operations
\* succeed, the member holds among the reward-mapped roles only the role of
\* the highest requiredLevel <= newLevel; with rewards {5:A, 10:B, 15:C} and
\* a jump from 4 to 12 the member holds {B}, A is removed if it was held and
\* C is not added.
C16_HighestOnlyLeavesTopTier ==
  \A p \in Procs :
    RewardsSettled(p, "highest_only") =>
      LET levelRoles == procs[p].cfg.levelRoles
          mapped == {levelRoles[l] : l \in DOMAIN levelRoles}
          holds == heldRoles[procs[p].k]
      IN /\ holds \cap mapped \subseteq
              StatedTier(levelRoles, procs[p].ret.newLevel)
         /\ JumpFourToTwelve(p) =>
              /\ holds \cap RewardRoles = {"B"}
              /\ "A" \in procs[p].had => "A" \in procs[p].toRemove
              /\ "C" \notin procs[p].toAdd

\* C17: on a level-up from oldLevel to newLevel the roles proposed for
\* addition are exactly the rewards of the levels in (oldLevel, newLevel]
\* that the member does not hold: every threshold a jump skips is included,
\* no role held is proposed, and resolving again for a member who holds the
\* proposals proposes nothing.
C17_ProposedAdditionsExact ==
  \A p \in Procs :
    (procs[p].op = "addXP" /\ "fetched" \in procs[p].did) =>
      LET pr == procs[p]
          levelRoles == pr.cfg.levelRoles
      IN /\ pr.toAdd =
              {r \in RewardRoles :
                 /\ r \notin pr.had
                 /\ \E l \in DOMAIN levelRoles :
                      /\ levelRoles[l] = r
                      /\ pr.ret.oldLevel < l
                      /\ l <= pr.ret.newLevel}
         /\ pr.toAdd \cap pr.had = {}
         /\ RolesToAdd(levelRoles, pr.ret.oldLevel, pr.ret.newLevel,
                       pr.had \cup pr.toAdd) = {}

\* A jump from 4 to 12 of a member who holds B proposed A, the reward of the
\* skipped level 5, and not B.
C17_Witness ==
  \E p \in Procs :
    /\ procs[p].op = "addXP" /\ "fetched" \in procs[p].did
    /\ JumpFourToTwelve(p)
    /\ procs[p].had = {"B"}
    /\ procs[p].toAdd = {"A"}

\* C18: on a level decrease to newLevel, the removal having succeeded, every
\* reward-mapped role the member held whose requiredLevel > newLevel is
\* removed and no role with a requiredLevel <= newLevel is removed, whatever
\* the roleRemovalStrategy.
C18_LevelDownRemovesUnearnedOnly ==
  \A p \in Procs :
    ( /\ Returned(p) /\ procs[p].op = "levelDown"
      /\ "fetched" \in procs[p].did /\ procs[p].faults = {} ) =>
      LET levelRoles == procs[p].cfg.levelRoles
          newLevel == procs[p].data.newLevel
      IN \A l \in DOMAIN levelRoles :
           levelRoles[l] \in procs[p].had =>
             IF l > newLevel
             THEN levelRoles[l] \notin heldRoles[procs[p].k]
             ELSE levelRoles[l] \in heldRoles[procs[p].k]

\* C19: when the guild lookup, the member fetch, the role addition or the
\* role removal of a level-up fails, the persisted record and the cache entry
\* stay as the grant committed them, addXP returns
\* {oldLevel, newLevel, gainedXp: amount, user} and nothing is thrown.
C19_RoleFailureKeepsLedger ==
  \A p \in Procs :
    (procs[p].op = "addXP" /\ procs[p].faults # {}) =>
      LET pr == procs[p]
          newXP == pr.ud.xp + pr.amt
      IN /\ db[pr.k] # Null
         /\ db[pr.k] = pr.res
         /\ db[pr.k].xp = newXP
         /\ db[pr.k].level = getLevelFromXP(newXP)
         /\ cache[pr.k] # Null
         /\ cache[pr.k].xp = newXP
         /\ cache[pr.k].level = getLevelFromXP(newXP)
         /\ pr.ret = RetGrant(pr.ud.level, getLevelFromXP(newXP), pr.amt,
                              cache[pr.k])
         /\ Returned(p) => pr.outcome = "granted"

\* The role addition of a level-up from 4 to 12 was refused; the grant
\* returned and the record stands at 1500 xp, level 12.
C19_Witness ==
  \E p \in Procs :
    /\ Returned(p) /\ procs[p].op = "addXP" /\ "add" \in procs[p].faults
    /\ procs[p].toAdd # {}
    /\ procs[p].toAdd \cap heldRoles[procs[p].k] = {}
    /\ db[procs[p].k] # Null
    /\ db[procs[p].k].xp = 1500 /\ db[procs[p].k].level = 12
    /\ procs[p].ret.gainedXp = 1100 /\ procs[p].ret.newLevel = 12

\* C20: when the record is gone at the moment addXP writes (a reset deleted
\* it after addXP read it), the write creates no record and changes nothing,
\* and addXP emits "error" and no xpGained or levelUp and returns
\* {oldLevel, newLevel: oldLevel, gainedXp: 0, user: the record it read}.
C20_VanishedRecordDegrades ==
  /\ [](\A p \in Procs :
          /\ (procs[p].pc = "add_resp" /\ procs[p].res = Null) =>
               procs[p].events = << >>
          /\ ( /\ Returned(p)
               /\ procs[p].op \in {"addXP", "message", "voice"}
               /\ procs[p].ret.kind = "grant"
               /\ procs[p].res = Null ) =>
               /\ procs[p].outcome = "failed"
               /\ procs[p].events = <<EvError(procs[p].k)>>
               /\ procs[p].ret.oldLevel = procs[p].ud.level
               /\ procs[p].ret.newLevel = procs[p].ud.level
               /\ procs[p].ret.gainedXp = 0
               /\ procs[p].ret.user = procs[p].ud)
  /\ [][\A p \in Procs :
          ( /\ procs[p].pc = "add_write"
            /\ procs'[p].pc = "add_resp"
            /\ db[procs[p].k] = Null ) =>
            /\ db' = db
            /\ cache' = cache
            /\ procs'[p].res = Null]_vars

\* An addXP read a record of 160 xp, resetGuildLevels deleted it, and the
\* addXP returned the degraded result; the record is still gone.
C20_Witness ==
  \E p \in Procs, q \in Procs :
    /\ Returned(p) /\ procs[p].op = "addXP" /\ procs[p].outcome = "failed"
    /\ procs[p].ud.xp = 160
    /\ procs[p].ret.gainedXp = 0
    /\ procs[q].op = "resetGuildLevels"
    /\ db[procs[p].k] = Null

\* The members of k's server whose persisted xp is strictly greater than xp.
RicherOfServer(k, xp) ==
  {j \in Keys : j[1] = k[1] /\ db[j] # Null /\ db[j].xp > xp}

\* C21: getUserRank returns 0 for a member whose xp is 0, however many
\* members the server has, and otherwise 1 + the number of members of the
\* same server with strictly greater xp; the records of other servers do not
\* count.
C21_RankCountsRicherOfServer ==
  \A p \in Procs :
    (Returned(p) /\ procs[p].op = "getUserRank") =>
      LET k == procs[p].k
      IN /\ db[k] # Null
         /\ procs[p].ret.kind = "count"
         /\ procs[p].ret.n =
              IF db[k].xp = 0 THEN 0
              ELSE 1 + Cardinality(RicherOfServer(k, db[k].xp))

\* The only member of g1 with xp > 0 has rank 1 although a member of g2 has
\* more xp.
C21_Witness ==
  \E p \in Procs :
    /\ Returned(p) /\ procs[p].op = "getUserRank"
    /\ procs[p].k = <<"g1", "u1">>
    /\ procs[p].ret.n = 1
    /\ db[<<"g1", "u1">>].xp = 160
    /\ db[<<"g1", "u2">>] # Null /\ db[<<"g1", "u2">>].xp = 0
    /\ db[<<"g1", "u3">>] = Null
    /\ db[<<"g2", "u1">>].xp > db[<<"g1", "u1">>].xp

\* clamp(limit, 1, 50)
StatedLimit(limit) == IF limit < 1 THEN 1 ELSE IF limit > 50 THEN 50 ELSE limit

\* C22: getLeaderboard(server, limit) queries with the limit clamped to
\* [1, 50] and returns exactly min(clamped limit, number of members of the
\* server with xp > 0) distinct records, all of that server and with xp > 0,
\* in descending order of xp, records equal in xp in descending order of
\* updatedAt.
C22_LeaderboardTopRanked ==
  \A p \in Procs :
    (Returned(p) /\ procs[p].op = "getLeaderboard") =>
      LET board == procs[p].board
          g == procs[p].k[1]
          ranked == {k \in Keys : k[1] = g /\ db[k] # Null /\ db[k].xp > 0}
      IN /\ procs[p].amt = StatedLimit(procs[p].limit)
         /\ Len(board) =
              Min(StatedLimit(procs[p].limit), Cardinality(ranked))
         /\ \A i \in 1..Len(board) :
              /\ board[i].guildId = g
              /\ board[i].xp > 0
              /\ <<board[i].guildId, board[i].userId>> \in ranked
              /\ board[i].xp = db[<<g, board[i].userId>>].xp
         /\ \A i, j \in 1..Len(board) :
              i < j =>
                /\ board[i].userId # board[j].userId
                /\ board[i].xp >= board[j].xp
                /\ board[i].xp = board[j].xp =>
                     board[i].updatedAt >= board[j].updatedAt

\* limit = 10 on a server with three ranked members returned exactly three
\* records; the last two are equal in xp and the later-updated comes first.
C22_Witness ==
  \E p \in Procs :
    /\ Returned(p) /\ procs[p].op = "getLeaderboard"
    /\ procs[p].limit = 10
    /\ Len(procs[p].board) = 3
    /\ procs[p].board[1].xp = 160
    /\ procs[p].board[2].xp = procs[p].board[3].xp
    /\ procs[p].board[2].updatedAt > procs[p].board[3].updatedAt
    /\ db[<<"g2", "u1">>] # Null

\* C23: resetUserLevel on an existing record sets xp, level,
\* lastMessageTimestamp, totalMessages and totalVoiceDurationMillis to 0 in
\* the same document (same _id), deletes the member's cache entry so that
\* the next getUserLevelData misses the cache and reads the zeroed document,
\* emits userLevelReset and changes no other record and no other cache entry.
C23_ResetUserZeroesInPlace ==
  /\ [](\A p \in Procs :
          ( /\ Returned(p) /\ procs[p].op = "resetUserLevel"
            /\ procs[p].pre # Null ) =>
            /\ db[procs[p].k] = FreshDoc
            /\ cache[procs[p].k] = Null
            /\ procs[p].events = <<EvUserLevelReset(procs[p].k)>>
            /\ procs[p].ret = RetBool(TRUE))
  /\ [][\A p \in Procs :
          LET k == procs[p].k
          IN /\ ( /\ procs[p].pc = "ru_db" /\ procs'[p].pc = "ru_resp"
                  /\ db[k] # Null ) =>
                  /\ db'[k] = FreshDoc
                  /\ stamps'[k].id = stamps[k].id
                  /\ \A j \in Keys \ {k} : db'[j] = db[j] /\ stamps'[j] = stamps[j]
                  /\ cache' = cache
             /\ (procs[p].pc = "ru_resp" /\ procs'[p].pc = "done") =>
                  /\ cache'[k] = Null
                  /\ \A j \in Keys \ {k} : cache'[j] = cache[j]
                  /\ db' = db /\ stamps' = stamps
             /\ ( /\ Returned(p) /\ procs[p].op = "resetUserLevel"
                  /\ procs[p].pre # Null
                  /\ procs'[p].op = "getUserLevelData"
                  /\ procs'[p].k = k ) =>
                  /\ procs'[p].pc = "gud_db"
                  /\ db[k] = FreshDoc]_vars

\* The record of 160 xp was reset: it is zero, still the first document, its
\* cache entry is gone, and the other members' records and cache entries are
\* as they were.
C23_Witness ==
  \E p \in Procs :
    /\ Returned(p) /\ procs[p].op = "resetUserLevel"
    /\ procs[p].k = <<"g1", "u1">>
    /\ procs[p].pre # Null /\ procs[p].pre.xp = 160 /\ procs[p].pre.msgs = 3
    /\ db[<<"g1", "u1">>] = FreshDoc
    /\ stamps[<<"g1", "u1">>].id = 1
    /\ cache[<<"g1", "u1">>] = Null
    /\ db[<<"g1", "u2">>] = BoardDoc(60)
    /\ cache[<<"g1", "u2">>] = BoardDoc(60)
    /\ cache[<<"g2", "u1">>] = BoardDoc(500)

\* C24: resetGuildLevels(g) deletes every UserLevel record of server g,
\* deletes every cached level entry of server g, returns the number of
\* records deleted and emits guildLevelsReset with that number; the records
\* and cache entries of the other servers are unchanged.
C24_ResetGuildDeletesServerOnly ==
  /\ [](\A p \in Procs :
          (Returned(p) /\ procs[p].op = "resetGuildLevels") =>
            LET g == procs[p].k[1]
            IN /\ \A k \in Keys : k[1] = g => db[k] = Null /\ cache[k] = Null
               /\ procs[p].ret = RetCount(procs[p].amt)
               /\ procs[p].events = <<EvGuildLevelsReset(g, procs[p].amt)>>)
  /\ [][\A p \in Procs :
          LET g == procs[p].k[1]
          IN /\ (procs[p].pc = "rg_db" /\ procs'[p].pc = "rg_resp") =>
                  /\ procs'[p].amt =
                       Cardinality({k \in Keys : k[1] = g /\ db[k] # Null})
                  /\ \A k \in Keys :
                       IF k[1] = g THEN db'[k] = Null ELSE db'[k] = db[k]
                  /\ cache' = cache
             /\ (procs[p].pc = "rg_resp" /\ procs'[p].pc = "done") =>
                  /\ procs'[p].amt = procs[p].amt
                  /\ \A k \in Keys :
                       IF k[1] = g THEN cache'[k] = Null
                       ELSE cache'[k] = cache[k]
                  /\ db' = db]_vars

\* The three cached records of g1 were deleted and 3 was returned; the
\* record of g2 and its cache entry are still there.
C24_Witness ==
  \E p \in Procs :
    /\ Returned(p) /\ procs[p].op = "resetGuildLevels"
    /\ procs[p].k[1] = "g1"
    /\ procs[p].ret = RetCount(3)
    /\ \A u \in Users : db[<<"g1", u>>] = Null /\ cache[<<"g1", u>>] = Null
    /\ db[<<"g2", "u1">>] = BoardDoc(500)
    /\ cache[<<"g2", "u1">>] = BoardDoc(500)

\* C25: whatever getConfig, updateConfig and deleteConfig calls were made,
\* with valid or invalid settings, every configuration returned by getConfig
\* or updateConfig (and every one cached) has roleRemovalStrategy in
\* {keep_all, highest_only, remove_previous} and leaderboardStyle in
\* {card, text}.
C25_ReturnedConfigEnumerated ==
  /\ \A p \in Procs :
       procs[p].ret.kind = "config" =>
         /\ procs[p].op \in {"getConfig", "updateConfig"}
         /\ procs[p].ret.config.roleRemovalStrategy \in
              {"keep_all", "highest_only", "remove_previous"}
         /\ procs[p].ret.config.leaderboardStyle \in {"card", "text"}
  /\ \A g \in Guilds :
       configCache[g] # Null =>
         /\ configCache[g].roleRemovalStrategy \in
              {"keep_all", "highest_only", "remove_previous"}
         /\ configCache[g].leaderboardStyle \in {"card", "text"}

\* The stored leaderboardStyle is null, and getConfig, reading the stored
\* settings, returned "card".
C25_Witness ==
  \E p \in Procs :
    /\ Returned(p) /\ procs[p].op = "getConfig" /\ procs[p].outcome = "loaded"
    /\ guildConfigs[procs[p].k[1]] # Null
    /\ guildConfigs[procs[p].k[1]].leaderboardStyle = Nothing
    /\ guildConfigs[procs[p].k[1]].roleRemovalStrategy = "highest_only"
    /\ procs[p].ret.config.leaderboardStyle = "card"
    /\ procs[p].ret.config.roleRemovalStrategy = "highest_only"

\* C26: experience is revoked only while enablePenaltySystem is true: with
\* the flag false a revoke request (applyPenalty or removeXP) returns null,
\* emits nothing (no xpLost, no levelDown) and leaves the xp and level of the
\* member's record as they were when it was called.
C26_RevokeOnlyWhileEnabled ==
  \A p \in Procs :
    (/\ Returned(p)
     /\ procs[p].op \in {"applyPenalty", "removeXP"}
     /\ ~config[procs[p].k[1]].enablePenaltySystem)
    => /\ procs[p].ret = RetNull
       /\ procs[p].events = << >>
       /\ procs[p].pre # Null =>
            /\ db[procs[p].k] # Null
            /\ db[procs[p].k].xp = procs[p].pre.xp
            /\ db[procs[p].k].level = procs[p].pre.level

\* C27: every voice grant that reached the ledger was preceded by an increase
\* of the member's persisted total voice time by exactly the duration of the
\* grant, also for a member who had no record when the grant was processed.
C27_VoiceTimeCountedBeforeGrant ==
  \A p \in Procs :
    (/\ Returned(p)
     /\ procs[p].op = "voice"
     /\ procs[p].outcome = "granted")
    => /\ db[procs[p].k] # Null
       /\ db[procs[p].k].voice =
            (IF procs[p].pre = Null THEN 0 ELSE procs[p].pre.voice)
            + procs[p].dur

\* The message handler pr has invoked the grant (addXP), whatever came of it.
GrantInvoked(pr) ==
  /\ pr.op = "message"
  /\ \/ pr.pc \in {"add_write", "add_resp", "add_roles"}
     \/ pr.pc \in {"gud_db", "gud_resp"} /\ pr.cont = "add_write"
     \/ pr.pc = "done" /\ pr.outcome \in {"granted", "failed", "threw"}

C29_SweepGrantsElapsedTime ==
  \A p \in Procs :
    (procs[p].op = "voice" /\ procs[p].caller = "sweep") =>
      procs[p].dur = procs[p].sweepNow - procs[p].joinTime

\* C30: a voice-state event that takes a member who is not a bot from
\* ineligible to eligible (in a channel, not server-deafened, not suppressed)
\* sets the tracked start to now when the member has none; no voice-state
\* event replaces a tracked start by another; an event from eligible to
\* eligible (a channel switch) changes nothing; a bot is never tracked.
C30_TrackedStartSetOnce ==
  /\ [][\A k \in Keys :
          /\ (voiceJoinTimes'[k] # voiceJoinTimes[k] /\ voiceJoinTimes'[k] # 0)
               => /\ voiceJoinTimes[k] = 0
                  /\ voiceJoinTimes'[k] = now
                  /\ ~members'[k].bot
                  /\ ~ValidForXp(members[k]) /\ ValidForXp(members'[k])
          /\ (/\ members'[k] # members[k]
              /\ ~members'[k].bot
              /\ ~ValidForXp(members[k]) /\ ValidForXp(members'[k])
              /\ voiceJoinTimes[k] = 0)
               => voiceJoinTimes'[k] = now
          /\ (/\ members'[k] # members[k]
              /\ ValidForXp(members[k]) /\ ValidForXp(members'[k]))
               => /\ UNCHANGED <<voiceJoinTimes, db, cache>>
                  /\ \A p \in Procs :
                       procs'[p].op = "voice" => procs'[p] = procs[p]]_vars
  /\ [](\A k \in Keys : members[k].bot => voiceJoinTimes[k] = 0)

\* A member whose exit is still being flushed became eligible again: the
\* event found the earlier tracked start and kept it.
C30_Witness ==
  \E p \in Procs :
    /\ Returned(p) /\ procs[p].op = "voiceState" /\ procs[p].outcome = "valid"
    /\ voiceJoinTimes[procs[p].k] # 0
    /\ voiceJoinTimes[procs[p].k] < procs[p].t

\* C31: under remove_previous, the roles a level-up marks for removal are
\* exactly the reward roles the member object shows whose requiredLevel is
\* below newLevel for some entry, except a role that is also the reward of
\* requiredLevel = newLevel; the reward of the level just reached is never
\* marked, and so never removed, in that level-up.
C31_RemovePreviousSparesReachedReward ==
  /\ [][\A p \in Procs :
          (/\ procs[p].pc \in {"role_fetch", "role_add_resp"}
           /\ procs'[p].pc \in {"role_remove", "done"}
           /\ "fetched" \in procs'[p].did
           /\ procs'[p].cfg.roleRemovalStrategy = "remove_previous")
          => LET lr == procs'[p].cfg.levelRoles
                 newLevel == procs'[p].ret.newLevel
             IN \A r \in RewardRoles :
                  r \in procs'[p].toRemove <=>
                    /\ r \in members[procs[p].k].roles
                    /\ \E l \in DOMAIN lr : lr[l] = r /\ l < newLevel
                    /\ ~(newLevel \in DOMAIN lr /\ lr[newLevel] = r)]_vars
  /\ [](\A p \in Procs :
          (/\ procs[p].op = "addXP"
           /\ procs[p].cfg # Null
           /\ procs[p].cfg.roleRemovalStrategy = "remove_previous"
           /\ procs[p].ret.kind = "grant"
           /\ procs[p].ret.newLevel \in DOMAIN procs[p].cfg.levelRoles)
          => procs[p].cfg.levelRoles[procs[p].ret.newLevel]
               \notin procs[p].toRemove)

\* A member holding A, the reward of levels 5 and 10, rose from level 4 to
\* level 10 under remove_previous and still holds A.
C31_Witness ==
  \E p \in Procs :
    /\ Returned(p) /\ procs[p].op = "addXP" /\ procs[p].outcome = "granted"
    /\ procs[p].cfg # Null
    /\ procs[p].cfg.roleRemovalStrategy = "remove_previous"
    /\ procs[p].cfg.levelRoles = ReusedRewards
    /\ procs[p].ret.oldLevel = 4 /\ procs[p].ret.newLevel = 10
    /\ "fetched" \in procs[p].did
    /\ "A" \in procs[p].had
    /\ procs[p].toRemove = {}
    /\ "A" \in heldRoles[procs[p].k]

\* C32: an updateConfig whose roleRemovalStrategy or leaderboardStyle is
\* outside its enumeration is not rejected: it returns the configuration,
\* the other enumerated field of the same update is applied, and the
\* effective value of the invalid field is the safe default (keep_all,
\* respectively card).
C32_InvalidEnumCoercedToDefault ==
  \A p \in Procs :
    (Returned(p) /\ procs[p].op = "updateConfig") =>
      LET input == procs[p].input
          badStrategy == /\ "roleRemovalStrategy" \in DOMAIN input
                         /\ input.roleRemovalStrategy \notin ValidStrategies
          badStyle == /\ "leaderboardStyle" \in DOMAIN input
                      /\ input.leaderboardStyle \notin ValidStyles
      IN (badStrategy \/ badStyle) =>
           /\ procs[p].ret.kind = "config"
           /\ badStrategy =>
                procs[p].ret.config.roleRemovalStrategy = "keep_all"
           /\ badStyle => procs[p].ret.config.leaderboardStyle = "card"
           /\ ("roleRemovalStrategy" \in DOMAIN input /\ ~badStrategy) =>
                procs[p].ret.config.roleRemovalStrategy =
                  input.roleRemovalStrategy
           /\ ("leaderboardStyle" \in DOMAIN input /\ ~badStyle) =>
                procs[p].ret.config.leaderboardStyle = input.leaderboardStyle

\* The levels the levelUp events of handler pr announce.
LevelsAnnounced(pr) ==
  {pr.events[i].newLevel :
     i \in {j \in 1..Len(pr.events) : pr.events[j].type = "levelUp"}}

\* C33: for one member, no level is announced by more levelUp events than
\* the persisted level rose to it: two overlapping grants (the only two
\* operations made, so the level rose to any level at most once) do not both
\* emit levelUp for the same newLevel.
C33_LevelUpOncePerRise ==
  ( /\ Returned(1) /\ Returned(2)
    /\ procs[1].k = procs[2].k
    /\ opsStarted = 2 )
  => LevelsAnnounced(procs[1]) \cap LevelsAnnounced(procs[2]) = {}

\* C34: a grant that read the member's xp before a resetUserLevel does not
\* write the pre-reset total back: when a grant and a reset of the same
\* member overlapped (the only two operations made) and both have returned,
\* the persisted xp is at most the amount of that grant.
C34_StaleGrantNotWrittenBack ==
  \A p, q \in Procs :
    ( /\ Returned(p) /\ Returned(q)
      /\ procs[p].op = "addXP" /\ procs[q].op = "resetUserLevel"
      /\ procs[p].k = procs[q].k
      /\ opsStarted = 2
      /\ db[procs[p].k] # Null )
    => db[procs[p].k].xp <= procs[p].amt

\* C35: whenever no voice handler is in progress, a member whose most
\* recently handled voice-state event took them to eligible has a tracked
\* entry, also when that event was handled while the exit handler of the
\* previous session was still awaiting its flush.
C35_EligibleMemberTracked ==
  \A p \in Procs :
    ( /\ AllIdle
      /\ shutdowns = 0
      /\ Returned(p)
      /\ procs[p].op = "voiceState"
      /\ procs[p].outcome = "valid"
      /\ ValidForXp(members[procs[p].k]) )
    => voiceJoinTimes[procs[p].k] # 0

\* C36: no span of voice time is granted twice.  When the grant of a sweep
\* for a tracked member is in flight and the member's exit is handled
\* meanwhile, only one of the two handlers is granted the time since the
\* tracked start, and once the handlers are done the member who left has no
\* entry (the sweep does not put back what the exit handler removed).
C36_SweepAndExitGrantOnce ==
  /\ \A p, q \in Procs :
       ( /\ procs[p].op = "voice" /\ procs[p].caller = "sweep"
         /\ procs[q].op = "voice" /\ procs[q].caller = "exit"
         /\ procs[p].k = procs[q].k
         /\ procs[p].joinTime = now - procs[q].dur
         /\ Returned(p) /\ Returned(q) )
       => ~(procs[p].outcome = "granted" /\ procs[q].outcome = "granted")
  /\ \A q \in Procs :
       ( /\ AllIdle
         /\ Returned(q)
         /\ procs[q].op = "voice" /\ procs[q].caller = "exit"
         /\ ~ValidForXp(members[procs[q].k]) )
       => voiceJoinTimes[procs[q].k] = 0

\* C37: whenever no operation is in flight, a cached level entry equals the
\* persisted record of that member (xp, level, lastMessageTimestamp and
\* counters), and a member whose record was deleted has no cache entry.
C37_CacheMatchesLedgerAtRest ==
  AllIdle =>
    \A k \in Keys :
      cache[k] # Null => (db[k] # Null /\ cache[k] = db[k])

\* C38: once an updateConfig or a deleteConfig has completed and the
\* getConfig that overlapped it has finished, the cache of that server is
\* empty or holds the configuration of the stored settings (the defaults
\* when nothing is stored), so the next getConfig returns the new values.
C38_ConfigCacheFollowsChange ==
  \A p, q \in Procs :
    LET g == procs[p].k[1]
        effective == IF guildConfigs[g] = Null THEN defaultConfig
                     ELSE _normalizeConfig(Merge(defaultConfig, guildConfigs[g]))
    IN (/\ AllIdle
        /\ procs[p].pc = "done"
        /\ procs[p].op \in {"updateConfig", "deleteConfig"}
        /\ procs[p].outcome \in {"updated", "deleted", "nothing"}
        /\ procs[q].pc = "done"
        /\ procs[q].op = "getConfig"
        /\ procs[q].k = procs[p].k)
       => (configCache[g] = Null \/ configCache[g] = effective)

\* C39: after the levelDown handler has run for a decrease to newLevel, the
\* member still holds every role held before that is the reward of some
\* requiredLevel <= newLevel, also when the same role id is the reward of a
\* higher tier that was lost.
C39_LevelDownKeepsEarnedRewards ==
  \A p \in Procs :
    (Returned(p) /\ procs[p].op = "levelDown" /\ "fetched" \in procs[p].did) =>
      LET levelRoles == procs[p].cfg.levelRoles
          newLevel == procs[p].data.newLevel
          earned == {levelRoles[l] : l \in {x \in DOMAIN levelRoles :
                                              x <= newLevel}}
      IN (earned \cap procs[p].had) \subseteq heldRoles[procs[p].k]

\* C40: when member.roles.add of a level-up failed, that level-up removes no
\* reward role: no member.roles.remove is carried out and the member holds
\* every role held before.
C40_FailedAdditionRemovesNothing ==
  \A p \in Procs :
    (procs[p].op = "addXP" /\ "add" \in procs[p].faults) =>
      /\ "removed" \notin procs[p].did
      /\ procs[p].had \subseteq heldRoles[procs[p].k]

====
